---- MODULE Spec2Model ----
(***************************************************************************)
(* A model of pyrerp's overlap/artifact resolution (src/pyrerp/rerp.py):   *)
(* the canonical subspan generator _epoch_subspans and the all-or-nothing  *)
(* propagation _propagate_all_or_nothing, driven the way multi_rerp_impl   *)
(* and the module's own tests drive them.                                  *)
(*                                                                         *)
(* Positions are pairs <<recspan_id, tick>> compared lexicographically.    *)
(* An epoch object is modelled by its identity, a number 1..Len(epochs):   *)
(* _Epoch has identity semantics.  The epoch slot of an artifact span is   *)
(* None in the source and 0 here; the artifact slot of an epoch span is    *)
(* None in the source and the string "None" here.                          *)
(***************************************************************************)
EXTENDS Integers, Sequences, FiniteSets, TLC

VARIABLES family, overlap_correction, epochs, spans, intrinsic_artifacts,
          pc, overlap_graph, epochs_needing_artifact, run, first_result,
          subspans, raised,
          rerps, requested_strategy, regression_strategy, message,
          design_widths,
          jobs, jobs_iter, model, betas,
          rerp_requests, dataset, queries, analysis_subspans,
          accountant, consumed

(* The state of the span list, the propagation and the sweep.              *)
sweep_vars == <<family, overlap_correction, epochs, spans, intrinsic_artifacts,
                overlap_graph, epochs_needing_artifact, run, first_result,
                subspans>>

(* The state of multi_rerp_impl once the accounting is closed: the rERP    *)
(* objects, the strategy asked for and chosen, the ValueError's message    *)
(* and the two design widths.                                              *)
strategy_vars == <<rerps, requested_strategy, regression_strategy, message,
                   design_widths>>

(* The state of the reduction of multi_rerp_impl: the jobs, the jobs whose  *)
(* result parimap_unordered has not delivered yet, the accumulator, and    *)
(* the coefficients of the fit.                                            *)
reduce_vars == <<jobs, jobs_iter, model, betas>>

(* The arguments of multi_rerp_impl, the number of queries the dataset has *)
(* answered, and the subspans kept for the fit.                            *)
request_vars == <<rerp_requests, dataset, queries, analysis_subspans>>

(* The _Accountant and the number of subspans handed to its count().       *)
account_vars == <<accountant, consumed>>

(* What the span list, the propagation and the sweep never touch.          *)
later_vars == <<strategy_vars, reduce_vars, request_vars, account_vars>>

vars == <<family, overlap_correction, epochs, spans, intrinsic_artifacts,
          pc, overlap_graph, epochs_needing_artifact, run, first_result,
          subspans, raised, later_vars>>

(* The values of the variables a specification does not use.               *)
SweepIdle ==
  /\ family = "none"
  /\ overlap_correction = TRUE
  /\ epochs = <<>>
  /\ spans = <<>>
  /\ intrinsic_artifacts = <<>>
  /\ overlap_graph = <<>>
  /\ epochs_needing_artifact = {}
  /\ run = 0
  /\ first_result = <<>>
  /\ subspans = <<>>

StrategyIdle ==
  /\ rerps = <<>>
  /\ requested_strategy = "none"
  /\ regression_strategy = "none"
  /\ message = <<>>
  /\ design_widths = <<>>

ReduceIdle ==
  /\ jobs = <<>>
  /\ jobs_iter = {}
  /\ model = <<>>
  /\ betas = "none"

RequestIdle ==
  /\ rerp_requests = <<>>
  /\ dataset = <<>>
  /\ queries = 0
  /\ analysis_subspans = <<>>

AccountIdle ==
  /\ accountant = <<>>
  /\ consumed = 0

LaterIdle == StrategyIdle /\ ReduceIdle /\ RequestIdle /\ AccountIdle

-----------------------------------------------------------------------------
(* Bounds of the "grid" family of inputs: the last tick of its windows,    *)
(* and the number of spans (artifact and epoch spans together) in a list.  *)

MaxTick == 2

MaxSpans == 3

-----------------------------------------------------------------------------
(* The inputs.  Three families of span lists:                              *)
(*   "grid"     every window over the ticks 0..MaxTick;                    *)
(*   "test"     the four chained windows and the artifact windows of       *)
(*              test__propagate_all_or_nothing;                            *)
(*   "scenario" the two overlapping windows [0,10) and [5,15).             *)

Families == {"grid", "test", "scenario"}

Windows(f) ==
  CASE f = "grid" -> {w \in (0..MaxTick) \X (0..MaxTick) : w[1] < w[2]}
    [] f = "test" -> {<<0, 100>>, <<50, 200>>, <<150, 300>>, <<250, 400>>}
    [] f = "scenario" -> {<<0, 10>>, <<5, 15>>}

ArtifactWindows(f) ==
  CASE f = "grid" -> {w \in (0..MaxTick) \X (0..MaxTick) : w[1] < w[2]}
    [] f = "test" -> {<<10, 11>>, <<200, 210>>, <<300, 301>>, <<350, 360>>}
    [] f = "scenario" -> {}

ArtifactLabel(f) == IF f = "test" THEN "_MOCK_ARTIFACT" ELSE "a1"

BornLabel(f) == IF f = "test" THEN "born_bad" ELSE "_MISSING_PREDICTOR"

(* Python's order of the artifact-type strings that occur in spans.        *)
LabelOrder == <<"_MOCK_ARTIFACT", "_NO_RECORDING", "a1">>

-----------------------------------------------------------------------------
(* Small helpers.                                                          *)

Range(s) == {s[i] : i \in 1..Len(s)}

PosLess(p, q) == p[1] < q[1] \/ (p[1] = q[1] /\ q[2] > p[2])

PosLeq(p, q) == p = q \/ PosLess(p, q)

RECURSIVE LexLess(_, _)
LexLess(a, b) ==
  IF a = <<>> \/ b = <<>> THEN FALSE
  ELSE IF Head(a) # Head(b) THEN Head(a) < Head(b)
  ELSE LexLess(Tail(a), Tail(b))

(* _DataSpan(start, stop, epoch, artifact)                                 *)
DataSpan(start, stop, epoch, artifact) ==
  [start |-> start, stop |-> stop, epoch |-> epoch, artifact |-> artifact]

(* _DataSubSpan(start, stop, epochs, artifacts)                            *)
DataSubSpan(start, stop, eps, arts) ==
  [start |-> start, stop |-> stop, epochs |-> eps, artifacts |-> arts]

(* _Epoch(recspan_id, start_tick, ticks, design_row, rerp,                 *)
(* intrinsic_artifacts): the fields the sweep and the propagation read.    *)
(* all_or_nothing stands for epoch.rerp.request.all_or_nothing, born for   *)
(* the intrinsic_artifacts list the constructor was given.                 *)
Epoch(recspan_id, start_tick, ticks, all_or_nothing, born) ==
  [recspan_id |-> recspan_id, start_tick |-> start_tick, ticks |-> ticks,
   all_or_nothing |-> all_or_nothing, born |-> born]

-----------------------------------------------------------------------------
(* _epoch_subspans                                                         *)

ArtifactRank(a) ==
  IF a = "None" THEN 0
  ELSE CHOOSE i \in 1..Len(LabelOrder) : LabelOrder[i] = a

(* The tuple order of state_changes.sort(): position, then epoch (None     *)
(* before every object, objects in their identity order), then artifact    *)
(* (None before every string), then change.                                *)
StateChangeLess(a, b) ==
  IF a.position # b.position THEN PosLess(a.position, b.position)
  ELSE LexLess(<<a.epoch, ArtifactRank(a.artifact), a.change>>,
               <<b.epoch, ArtifactRank(b.artifact), b.change>>)

RECURSIVE StateChanges(_)
StateChanges(sp) ==
  IF sp = <<>> THEN <<>>
  ELSE <<[position |-> Head(sp).start, epoch |-> Head(sp).epoch,
          artifact |-> Head(sp).artifact, change |-> 1],
         [position |-> Head(sp).stop, epoch |-> Head(sp).epoch,
          artifact |-> Head(sp).artifact, change |-> -1]>>
       \o StateChanges(Tail(sp))

RECURSIVE Insert(_, _)
Insert(x, s) ==
  IF s = <<>> THEN <<x>>
  ELSE IF StateChangeLess(x, Head(s)) THEN <<x>> \o s
  ELSE <<Head(s)>> \o Insert(x, Tail(s))

RECURSIVE Sort(_)
Sort(s) == IF s = <<>> THEN <<>> ELSE Insert(Head(s), Sort(Tail(s)))

(* The same, with the live keys kept as a set instead of counted: the      *)
(* first interval of a label that closes ends the label.                   *)
ApplyChange_AsSet(state_dict, state, change) ==
  [dict |-> IF change = 1
            THEN [k \in DOMAIN state_dict \cup {state} |-> 1]
            ELSE [k \in DOMAIN state_dict \ {state} |-> 1],
   raised |-> "none"]

(* One pass of the inner loop over (state, state_dict): a live-count map   *)
(* is a function from its keys to their counts.  A decrement of an absent  *)
(* key is Python's KeyError.                                               *)
ApplyChange(state_dict, state, change) ==
  LET d0 == IF change = 1 /\ state \notin DOMAIN state_dict
            THEN [k \in DOMAIN state_dict \cup {state} |->
                    IF k = state THEN 0 ELSE state_dict[k]]
            ELSE state_dict
  IN IF state \notin DOMAIN d0
     THEN [dict |-> state_dict, raised |-> "KeyError"]
     ELSE LET d1 == [d0 EXCEPT ![state] = @ + change]
          IN [dict |-> IF change = -1 /\ d1[state] = 0
                       THEN [k \in DOMAIN d1 \ {state} |-> d1[k]]
                       ELSE d1,
              raised |-> "none"]

(* sorted(current_epochs, key=lambda e: e.start_tick): the epochs of ids   *)
(* by start tick.  Python leaves epochs of equal start tick in the dict's  *)
(* iteration order; here they follow their identity order.                 *)
RECURSIVE SortedEpochs(_, _)
SortedEpochs(ids, eps) ==
  IF ids = {} THEN <<>>
  ELSE LET e == CHOOSE x \in ids : \A y \in ids :
                  \/ eps[x].start_tick < eps[y].start_tick
                  \/ (eps[x].start_tick = eps[y].start_tick /\ x <= y)
       IN <<e>> \o SortedEpochs(ids \ {e}, eps)

IntrinsicOf(ids, intr) == UNION {Range(intr[e]) : e \in ids}

(* The same, with the copies of overlap_correction=False left out: only   *)
(* the first live epoch gets a subspan.                                    *)
Emit_FirstEpochOnly(last_position, position, current_epochs, current_artifacts, oc, eps, intr) ==
  IF oc
  THEN <<DataSubSpan(last_position, position, current_epochs,
                     current_artifacts \cup IntrinsicOf(current_epochs, intr))>>
  ELSE LET order == SortedEpochs(current_epochs, eps)
       IN <<DataSubSpan(last_position, position, {order[1]},
                        current_artifacts \cup Range(intr[order[1]]))>>

(* The same, with the intrinsic artifacts forgotten when                   *)
(* overlap_correction=True.                                                *)
Emit_NoIntrinsic(last_position, position, current_epochs, current_artifacts, oc, eps, intr) ==
  IF oc
  THEN <<DataSubSpan(last_position, position, current_epochs, current_artifacts)>>
  ELSE LET order == SortedEpochs(current_epochs, eps)
       IN [i \in 1..Len(order) |->
             DataSubSpan(last_position, position, {order[i]},
                         current_artifacts \cup Range(intr[order[i]]))]

(* The same, with the intrinsic artifacts of every live epoch put on each  *)
(* private copy when overlap_correction=False.                             *)
Emit_SharedIntrinsic(last_position, position, current_epochs, current_artifacts, oc, eps, intr) ==
  IF oc
  THEN <<DataSubSpan(last_position, position, current_epochs,
                     current_artifacts \cup IntrinsicOf(current_epochs, intr))>>
  ELSE LET order == SortedEpochs(current_epochs, eps)
       IN [i \in 1..Len(order) |->
             DataSubSpan(last_position, position, {order[i]},
                         current_artifacts \cup IntrinsicOf(current_epochs, intr))]

(* The subspans yielded for [last_position, position).                     *)
Emit(last_position, position, current_epochs, current_artifacts, oc, eps, intr) ==
  IF oc
  THEN <<DataSubSpan(last_position, position, current_epochs,
                     current_artifacts \cup IntrinsicOf(current_epochs, intr))>>
  ELSE LET order == SortedEpochs(current_epochs, eps)
       IN [i \in 1..Len(order) |->
             DataSubSpan(last_position, position, {order[i]},
                         current_artifacts \cup Range(intr[order[i]]))]

(* The guard of the yield, with the test of current_epochs left out.      *)
ShouldEmit_AnyInterval(last_position, position, current_epochs) ==
  /\ last_position # <<>>
  /\ position # last_position

(* The guard of the yield, with the test of the position left out: a       *)
(* subspan is yielded between two state changes at one position.           *)
ShouldEmit_EveryChange(last_position, position, current_epochs) ==
  /\ last_position # <<>>
  /\ current_epochs # {}

(* The guard of the yield: last_position is None (here <<>>) before the    *)
(* first state change.                                                     *)
ShouldEmit(last_position, position, current_epochs) ==
  /\ last_position # <<>>
  /\ position # last_position
  /\ current_epochs # {}

(* The loop body, with last_position left alone while no epoch is live.    *)
SweepStep_KeepsLastPosition(st, sc, oc, eps, intr) ==
  LET out == IF ShouldEmit(st.last_position, sc.position,
                           DOMAIN st.current_epochs)
             THEN st.subspans \o Emit(st.last_position, sc.position,
                                      DOMAIN st.current_epochs,
                                      DOMAIN st.current_artifacts, oc, eps, intr)
             ELSE st.subspans
      ce == IF sc.epoch # 0
            THEN ApplyChange(st.current_epochs, sc.epoch, sc.change)
            ELSE [dict |-> st.current_epochs, raised |-> "none"]
      ca == IF sc.artifact # "None" /\ ce.raised = "none"
            THEN ApplyChange(st.current_artifacts, sc.artifact, sc.change)
            ELSE [dict |-> st.current_artifacts, raised |-> "none"]
  IN [last_position |-> IF DOMAIN st.current_epochs = {} /\ st.last_position # <<>>
                        THEN st.last_position ELSE sc.position,
      current_epochs |-> ce.dict,
      current_artifacts |-> ca.dict,
      subspans |-> out,
      raised |-> IF ce.raised # "none" THEN ce.raised ELSE ca.raised]

(* The loop body for one state change.  st is the generator's frame.       *)
SweepStep(st, sc, oc, eps, intr) ==
  LET out == IF ShouldEmit(st.last_position, sc.position,
                           DOMAIN st.current_epochs)
             THEN st.subspans \o Emit(st.last_position, sc.position,
                                      DOMAIN st.current_epochs,
                                      DOMAIN st.current_artifacts, oc, eps, intr)
             ELSE st.subspans
      ce == IF sc.epoch # 0
            THEN ApplyChange(st.current_epochs, sc.epoch, sc.change)
            ELSE [dict |-> st.current_epochs, raised |-> "none"]
      ca == IF sc.artifact # "None" /\ ce.raised = "none"
            THEN ApplyChange(st.current_artifacts, sc.artifact, sc.change)
            ELSE [dict |-> st.current_artifacts, raised |-> "none"]
  IN [last_position |-> sc.position,
      current_epochs |-> ce.dict,
      current_artifacts |-> ca.dict,
      subspans |-> out,
      raised |-> IF ce.raised # "none" THEN ce.raised ELSE ca.raised]

RECURSIVE Sweep(_, _, _, _, _)
Sweep(st, scs, oc, eps, intr) ==
  IF scs = <<>> \/ st.raised # "none" THEN st
  ELSE Sweep(SweepStep(st, Head(scs), oc, eps, intr), Tail(scs), oc, eps, intr)

EmptyDict == [k \in {} |-> 0]

(* The same, with the caller's overlap_correction ignored.                 *)
EpochSubspans_AlwaysCorrecting(sp, oc, eps, intr) ==
  LET st == Sweep([last_position |-> <<>>, current_epochs |-> EmptyDict,
                   current_artifacts |-> EmptyDict, subspans |-> <<>>,
                   raised |-> "none"],
                  Sort(StateChanges(sp)), TRUE, eps, intr)
  IN [subspans |-> st.subspans, raised |-> st.raised]

(* list(_epoch_subspans(spans, overlap_correction)): the subspans yielded  *)
(* and the exception that ended the generator, if any.                     *)
EpochSubspans(sp, oc, eps, intr) ==
  LET st == Sweep([last_position |-> <<>>, current_epochs |-> EmptyDict,
                   current_artifacts |-> EmptyDict, subspans |-> <<>>,
                   raised |-> "none"],
                  Sort(StateChanges(sp)), oc, eps, intr)
  IN [subspans |-> st.subspans,
      raised |-> IF st.raised # "none" THEN st.raised
                 ELSE IF DOMAIN st.current_epochs = {}
                         /\ DOMAIN st.current_artifacts = {}
                      THEN "none" ELSE "AssertionError"]

-----------------------------------------------------------------------------
(* _propagate_all_or_nothing                                               *)

(* The same, with the all_or_nothing filter left out.                      *)
RelevantEpochs_All(subspan, eps) == subspan.epochs

(* relevant_epochs of one subspan.                                         *)
RelevantEpochs(subspan, eps) ==
  {e \in subspan.epochs : eps[e].all_or_nothing}

(* The same, with each overlap recorded in one direction only.            *)
OverlapGraph_OneWay(subs, eps) ==
  [a \in 1..Len(eps) |->
     {b \in 1..Len(eps) :
        /\ b > a
        /\ \E i \in 1..Len(subs) : {a, b} \subseteq RelevantEpochs(subs[i], eps)}]

(* overlap_graph after the loop over the subspans, read as the source      *)
(* reads it: overlap_graph.get(epoch, []).                                 *)
OverlapGraph(subs, eps) ==
  [a \in 1..Len(eps) |->
     {b \in 1..Len(eps) :
        /\ b # a
        /\ \E i \in 1..Len(subs) : {a, b} \subseteq RelevantEpochs(subs[i], eps)}]

(* The same, with the test of intrinsic_artifacts left out.                *)
NeedingArtifact_IgnoreIntrinsic(subs, eps, intr) ==
  {e \in 1..Len(eps) :
     \E i \in 1..Len(subs) :
        /\ subs[i].artifacts # {}
        /\ e \in RelevantEpochs(subs[i], eps)}

(* epochs_needing_artifact after the loop over the subspans.               *)
NeedingArtifact(subs, eps, intr) ==
  {e \in 1..Len(eps) :
     \E i \in 1..Len(subs) :
        /\ subs[i].artifacts # {}
        /\ e \in RelevantEpochs(subs[i], eps)
        /\ intr[e] = <<>>}

(* The same, with the overlapping epochs never enqueued.                   *)
PopEpoch_NoSpread(epoch, intr, graph, pending) ==
  [intrinsic_artifacts |-> [intr EXCEPT ![epoch] = Append(@, "_ALL_OR_NOTHING")],
   epochs_needing_artifact |-> pending \ {epoch},
   raised |-> IF intr[epoch] = <<>> THEN "none" ELSE "AssertionError"]

(* The same, with the overlapping epochs enqueued whether or not they      *)
(* carry an intrinsic artifact of their own.                               *)
PopEpoch_SpreadsToBornBad(epoch, intr, graph, pending) ==
  LET marked == [intr EXCEPT ![epoch] = Append(@, "_ALL_OR_NOTHING")]
  IN [intrinsic_artifacts |-> marked,
      epochs_needing_artifact |->
        (pending \ {epoch})
          \cup {o \in graph[epoch] : "_ALL_OR_NOTHING" \notin Range(marked[o])},
      raised |-> "none"]

(* One iteration of the while loop, for the epoch that pop() returned.     *)
PopEpoch(epoch, intr, graph, pending) ==
  LET marked == [intr EXCEPT ![epoch] = Append(@, "_ALL_OR_NOTHING")]
  IN [intrinsic_artifacts |-> marked,
      epochs_needing_artifact |->
        (pending \ {epoch}) \cup {o \in graph[epoch] : marked[o] = <<>>},
      raised |-> IF intr[epoch] = <<>> THEN "none" ELSE "AssertionError"]

(* The while loop run to its end; set.pop() returns an arbitrary member,   *)
(* and the result is the same for every choice (PopOrderIrrelevant).       *)
RECURSIVE PropagateLoop(_, _, _)
PropagateLoop(intr, graph, pending) ==
  IF pending = {} THEN intr
  ELSE LET epoch == CHOOSE e \in pending : TRUE
           r == PopEpoch(epoch, intr, graph, pending)
       IN PropagateLoop(r.intrinsic_artifacts, graph, r.epochs_needing_artifact)

(* The intrinsic-artifact lists _propagate_all_or_nothing leaves behind.   *)
PropagateAllOrNothing(sp, oc, eps, intr) ==
  LET subs == EpochSubspans(sp, oc, eps, intr).subspans
  IN PropagateLoop(intr, OverlapGraph(subs, eps), NeedingArtifact(subs, eps, intr))

-----------------------------------------------------------------------------
(* The state machine: a caller builds the span list (artifact spans, then  *)
(* epoch spans, as multi_rerp_impl does), runs the propagation (once, or   *)
(* twice in a row), and sweeps the subspans.                               *)

Pos(tick) == <<0, tick>>

ArtifactSpans == SelectSeq(spans, LAMBDA s : s.epoch = 0)

WindowOf(s) == <<s.start[2], s.stop[2]>>

EpochKey(e) ==
  <<e.start_tick, e.start_tick + e.ticks,
    IF e.all_or_nothing THEN 1 ELSE 0, Len(e.born)>>

(* The fixtures list each window once, in order; the grid lists any        *)
(* windows, in non-decreasing order (the sweep sorts its input, so the     *)
(* order of the list is immaterial).                                       *)
NextArtifactWindows ==
  LET n == Len(ArtifactSpans)
      last == WindowOf(ArtifactSpans[n])
  IN IF family = "grid"
     THEN {w \in ArtifactWindows(family) :
             /\ Len(spans) < MaxSpans
             /\ n > 0 => ~LexLess(w, last)}
     ELSE {w \in ArtifactWindows(family) :
             /\ n < 2
             /\ n > 0 => LexLess(last, w)}

NextEpochs ==
  LET n == Len(epochs)
      all == {Epoch(0, w[1], w[2] - w[1], aon, born) :
                w \in Windows(family), aon \in BOOLEAN,
                born \in {<<>>, <<BornLabel(family)>>}}
  IN IF family = "grid"
     THEN {e \in all :
             /\ Len(spans) < MaxSpans
             /\ n > 0 => ~LexLess(EpochKey(e), EpochKey(epochs[n]))}
     ELSE {e \in all :
             \A w \in Windows(family) :
                LexLess(w, <<e.start_tick, e.start_tick + e.ticks>>)
                  <=> \E i \in 1..n : EpochKey(epochs[i])[1] = w[1]}

InputComplete ==
  family = "grid" \/ Len(epochs) = Cardinality(Windows(family))

Init ==
  /\ family \in Families
  /\ overlap_correction \in BOOLEAN
  /\ epochs = <<>>
  /\ spans = <<>>
  /\ intrinsic_artifacts = <<>>
  /\ pc = "spans"
  /\ overlap_graph = <<>>
  /\ epochs_needing_artifact = {}
  /\ run = 0
  /\ first_result = <<>>
  /\ subspans = <<>>
  /\ raised = "none"
  /\ LaterIdle

(* spans.extend(_artifact_spans(...)): one artifact event's span.          *)
AddArtifactSpan ==
  /\ pc = "spans"
  /\ epochs = <<>>
  /\ \E w \in NextArtifactWindows :
       spans' = Append(spans, DataSpan(Pos(w[1]), Pos(w[2]), 0,
                                       ArtifactLabel(family)))
  /\ UNCHANGED <<later_vars, family, overlap_correction, epochs, intrinsic_artifacts, pc,
                 overlap_graph, epochs_needing_artifact, run, first_result,
                 subspans, raised>>

(* spans.extend(epoch_spans): one event's epoch and its span.              *)
AddEpochSpan ==
  /\ pc = "spans"
  /\ \E e \in NextEpochs :
       /\ epochs' = Append(epochs, e)
       /\ intrinsic_artifacts' = Append(intrinsic_artifacts, e.born)
       /\ spans' = Append(spans,
                          DataSpan(Pos(e.start_tick), Pos(e.start_tick + e.ticks),
                                   Len(epochs) + 1, "None"))
  /\ UNCHANGED <<later_vars, family, overlap_correction, pc, overlap_graph,
                 epochs_needing_artifact, run, first_result, subspans, raised>>

(* The call of _propagate_all_or_nothing and its loop over the subspans:   *)
(* multi_rerp_impl calls it when some request asks for all_or_nothing; a   *)
(* caller that runs it twice in a row calls it again when it returns.      *)
Propagate ==
  /\ \/ /\ pc = "spans"
        /\ InputComplete
        /\ \E e \in 1..Len(epochs) : epochs[e].all_or_nothing
     \/ pc = "propagated" /\ run = 1
  /\ \E r \in {EpochSubspans(spans, overlap_correction, epochs, intrinsic_artifacts)} :
        IF r.raised = "none"
        THEN /\ overlap_graph' = OverlapGraph(r.subspans, epochs)
             /\ epochs_needing_artifact' =
                  NeedingArtifact(r.subspans, epochs, intrinsic_artifacts)
             /\ pc' = "propagate"
             /\ raised' = raised
        ELSE /\ UNCHANGED <<overlap_graph, epochs_needing_artifact>>
             /\ pc' = "failed"
             /\ raised' = r.raised
  /\ run' = run + 1
  /\ UNCHANGED <<later_vars, family, overlap_correction, epochs, spans, intrinsic_artifacts,
                 first_result, subspans>>

(* One iteration of the while loop.                                        *)
Pop ==
  /\ pc = "propagate"
  /\ \E epoch \in epochs_needing_artifact :
       LET r == PopEpoch(epoch, intrinsic_artifacts, overlap_graph,
                         epochs_needing_artifact)
       IN IF r.raised = "none"
          THEN /\ intrinsic_artifacts' = r.intrinsic_artifacts
               /\ epochs_needing_artifact' = r.epochs_needing_artifact
               /\ UNCHANGED <<pc, raised>>
          ELSE /\ UNCHANGED <<intrinsic_artifacts, epochs_needing_artifact>>
               /\ pc' = "failed"
               /\ raised' = r.raised
  /\ UNCHANGED <<later_vars, family, overlap_correction, epochs, spans, overlap_graph, run,
                 first_result, subspans>>

(* The while loop ends and _propagate_all_or_nothing returns.              *)
PropagateReturn ==
  /\ pc = "propagate"
  /\ epochs_needing_artifact = {}
  /\ pc' = "propagated"
  /\ first_result' = IF run = 1 THEN intrinsic_artifacts ELSE first_result
  /\ UNCHANGED <<later_vars, family, overlap_correction, epochs, spans, intrinsic_artifacts,
                 overlap_graph, epochs_needing_artifact, run, subspans, raised>>

(* list(_epoch_subspans(spans, overlap_correction)): after the             *)
(* propagation, or at once when no request asks for all_or_nothing.        *)
EpochSubspansCall ==
  /\ \/ pc = "propagated" /\ run = 1
     \/ /\ pc = "spans"
        /\ InputComplete
        /\ \A e \in 1..Len(epochs) : ~epochs[e].all_or_nothing
  /\ \E r \in {EpochSubspans(spans, overlap_correction, epochs, intrinsic_artifacts)} :
        /\ subspans' = r.subspans
        /\ raised' = r.raised
        /\ pc' = IF r.raised = "none" THEN "swept" ELSE "failed"
  /\ UNCHANGED <<later_vars, family, overlap_correction, epochs, spans, intrinsic_artifacts,
                 overlap_graph, epochs_needing_artifact, run, first_result>>

Next ==
  \/ AddArtifactSpan
  \/ AddEpochSpan
  \/ Propagate
  \/ Pop
  \/ PropagateReturn
  \/ EpochSubspansCall

Spec == Init /\ [][Next]_vars

-----------------------------------------------------------------------------
(* What the input says, read off the span list without the sweep.          *)

SpanSet == Range(spans)

EpochSpanSet == {s \in SpanSet : s.epoch # 0}

ArtifactSpanSet == {s \in SpanSet : s.artifact # "None"}

(* The boundary positions: every start and stop of the input.              *)
Positions == {s.start : s \in SpanSet} \cup {s.stop : s \in SpanSet}

Inside(p, start, stop) == PosLeq(start, p) /\ PosLess(p, stop)

LiveEpochsAt(p) == {s.epoch : s \in {x \in EpochSpanSet : Inside(p, x.start, x.stop)}}

LiveArtifactsAt(p) ==
  {s.artifact : s \in {x \in ArtifactSpanSet : Inside(p, x.start, x.stop)}}

(* p and q are consecutive boundary positions.                             *)
Consecutive(p, q) ==
  /\ p \in Positions
  /\ q \in Positions
  /\ PosLess(p, q)
  /\ ~\E x \in Positions : PosLess(p, x) /\ PosLess(x, q)

(* Every input interval and every subspan starts and stops at a boundary   *)
(* position, so a union of such intervals is known by the boundary         *)
(* positions it contains: p stands for the stretch from p to the next      *)
(* boundary position.                                                      *)
CoveredBy(intervals) ==
  {p \in Positions : \E x \in intervals : Inside(p, x.start, x.stop)}

Disjoint(a, b) == PosLeq(a.stop, b.start) \/ PosLeq(b.stop, a.start)

PairwiseDisjoint(seq) ==
  \A i, j \in 1..Len(seq) : i # j => Disjoint(seq[i], seq[j])

AlignedToBoundaries(seq) ==
  \A i \in 1..Len(seq) :
     /\ seq[i].start \in Positions
     /\ seq[i].stop \in Positions
     /\ PosLess(seq[i].start, seq[i].stop)

RECURSIVE TotalTicks(_)
TotalTicks(seq) ==
  IF seq = <<>> THEN 0
  ELSE Head(seq).stop[2] - Head(seq).start[2] + TotalTicks(Tail(seq))

Naming(e) == SelectSeq(subspans, LAMBDA s : e \in s.epochs)

StartingAt(p) == {i \in 1..Len(subspans) : subspans[i].start = p}

-----------------------------------------------------------------------------
(* C1 as stated: the subspans are pairwise disjoint and their union is the *)
(* union of all input epoch and artifact intervals.                        *)
C1_AsStated ==
  pc = "swept" =>
    /\ PairwiseDisjoint(subspans)
    /\ CoveredBy(Range(subspans)) = CoveredBy(SpanSet)

(* C1, amended: the union of the subspans is the union of the input epoch  *)
(* intervals (a stretch that only artifact intervals cover yields no       *)
(* subspan); with overlap_correction=true the subspans are pairwise        *)
(* disjoint, and with overlap_correction=false two subspans overlap only   *)
(* when they are the same interval naming different epochs.                *)
C1_SubspansPartitionEpochIntervals ==
  pc = "swept" =>
    /\ raised = "none"
    /\ AlignedToBoundaries(subspans)
    /\ CoveredBy(Range(subspans)) = CoveredBy(EpochSpanSet)
    /\ overlap_correction => PairwiseDisjoint(subspans)
    /\ \A i, j \in 1..Len(subspans) :
         i # j =>
           \/ Disjoint(subspans[i], subspans[j])
           \/ /\ subspans[i].start = subspans[j].start
              /\ subspans[i].stop = subspans[j].stop
              /\ subspans[i].epochs # subspans[j].epochs

(* C1's case: a sweep of overlapping epochs and an artifact interval that  *)
(* reaches outside every epoch.                                            *)
C1_Witness ==
  /\ pc = "swept"
  /\ Len(subspans) >= 2
  /\ \E p \in Positions : Cardinality(LiveEpochsAt(p)) >= 2
  /\ \E p \in Positions : LiveEpochsAt(p) = {} /\ LiveArtifactsAt(p) # {}

(* C2: with overlap_correction=false the subspans naming one epoch are     *)
(* pairwise disjoint and their lengths add up to the epoch's window.       *)
C2_PrivateCopyCoversWindow ==
  (pc = "swept" /\ ~overlap_correction) =>
    \A s \in EpochSpanSet :
       /\ PairwiseDisjoint(Naming(s.epoch))
       /\ TotalTicks(Naming(s.epoch)) = s.stop[2] - s.start[2]
       /\ TotalTicks(Naming(s.epoch)) = epochs[s.epoch].ticks

(* C2's case: an epoch cut into several subspans by another epoch and by   *)
(* an artifact interval that overlap it.                                   *)
C2_Witness ==
  /\ pc = "swept"
  /\ ~overlap_correction
  /\ \E s \in EpochSpanSet :
       /\ Len(Naming(s.epoch)) >= 2
       /\ \E o \in EpochSpanSet : o.epoch # s.epoch /\ ~Disjoint(o, s)
       /\ \E a \in ArtifactSpanSet : ~Disjoint(a, s)

(* C3: with overlap_correction=true there is exactly one subspan for each  *)
(* pair of consecutive boundary positions between which an epoch is live,  *)
(* and no other; it names all live epochs and carries the live artifact    *)
(* labels and the intrinsic artifacts of every live epoch.  The epochs     *)
(* [0,10) and [5,15) without artifacts give [0,5){A}, [5,10){A,B},         *)
(* [10,15){B}.                                                             *)
C3_OneSubspanPerLiveInterval ==
  (pc = "swept" /\ overlap_correction) =>
    /\ \A p, q \in Positions :
         (Consecutive(p, q) /\ LiveEpochsAt(p) # {}) =>
           /\ Cardinality(StartingAt(p)) = 1
           /\ \A i \in StartingAt(p) :
                subspans[i] =
                  DataSubSpan(p, q, LiveEpochsAt(p),
                              LiveArtifactsAt(p)
                                \cup IntrinsicOf(LiveEpochsAt(p), intrinsic_artifacts))
    /\ \A i \in 1..Len(subspans) :
         /\ subspans[i].start \in Positions
         /\ LiveEpochsAt(subspans[i].start) # {}
    /\ (family = "scenario" /\ \A e \in 1..Len(epochs) : intrinsic_artifacts[e] = <<>>) =>
         subspans = <<DataSubSpan(Pos(0), Pos(5), {1}, {}),
                      DataSubSpan(Pos(5), Pos(10), {1, 2}, {}),
                      DataSubSpan(Pos(10), Pos(15), {2}, {})>>

(* C3's case: the sweep of [0,10) and [5,15) without artifacts.            *)
C3_Witness ==
  /\ pc = "swept"
  /\ overlap_correction
  /\ family = "scenario"
  /\ \A e \in 1..Len(epochs) : intrinsic_artifacts[e] = <<>>
  /\ Len(subspans) = 3
  /\ subspans[2].epochs = {1, 2}

(* C4: with overlap_correction=false each pair of consecutive boundary     *)
(* positions gets one subspan per live epoch, in order of start tick,      *)
(* each naming that one epoch and carrying the live artifact labels and    *)
(* that epoch's own intrinsic artifacts, and no other.                     *)
C4_OnePrivateSubspanPerLiveEpoch ==
  (pc = "swept" /\ ~overlap_correction) =>
    /\ \A p, q \in Positions :
         Consecutive(p, q) =>
           /\ Cardinality(StartingAt(p)) = Cardinality(LiveEpochsAt(p))
           /\ \A e \in LiveEpochsAt(p) :
                \E i \in StartingAt(p) :
                   subspans[i] =
                     DataSubSpan(p, q, {e},
                                 LiveArtifactsAt(p) \cup Range(intrinsic_artifacts[e]))
    /\ \A i \in 1..Len(subspans) :
         /\ subspans[i].start \in Positions
         /\ Cardinality(subspans[i].epochs) = 1
    /\ \A i \in 1..Len(subspans) - 1 :
         \/ PosLess(subspans[i].start, subspans[i + 1].start)
         \/ /\ subspans[i].start = subspans[i + 1].start
            /\ \A a \in subspans[i].epochs, b \in subspans[i + 1].epochs :
                 epochs[a].start_tick <= epochs[b].start_tick

(* C4's case: two overlapping epochs, one with an intrinsic artifact, and  *)
(* a clean subspan of the other inside the overlap.                        *)
C4_Witness ==
  /\ pc = "swept"
  /\ ~overlap_correction
  /\ \E i, j \in 1..Len(subspans) :
       /\ subspans[i].start = subspans[j].start
       /\ subspans[i].artifacts = {}
       /\ subspans[j].artifacts # {}
       /\ \E a \in subspans[i].epochs, b \in subspans[j].epochs :
            epochs[a].start_tick < epochs[b].start_tick

-----------------------------------------------------------------------------
(* The propagation, read off the span list.                                *)

SpanOf(e) == CHOOSE s \in EpochSpanSet : s.epoch = e

AllEpochs == 1..Len(epochs)

Marked(intr, e) == "_ALL_OR_NOTHING" \in Range(intr[e])

Tainted(intr) == {e \in DOMAIN intr : Marked(intr, e)}

RECURSIVE BornOf(_)
BornOf(eps) == IF eps = <<>> THEN <<>> ELSE <<Head(eps).born>> \o BornOf(Tail(eps))

(* The intrinsic-artifact lists the epochs were constructed with.          *)
BornLists == BornOf(epochs)

(* An all-or-nothing epoch that had no intrinsic artifact.                 *)
Eligible(e) == epochs[e].all_or_nothing /\ epochs[e].born = <<>>

WindowsOverlap(a, b) == ~Disjoint(SpanOf(a), SpanOf(b))

TouchesArtifactInterval(e) ==
  \E a \in ArtifactSpanSet : ~Disjoint(a, SpanOf(e))

(* The eligible epochs that lie in a subspan with artifacts before any     *)
(* marker is set: on the shared timeline an artifact interval or any       *)
(* epoch born with an intrinsic artifact overlaps them, on private         *)
(* copies an artifact interval does.                                       *)
Seeds ==
  {e \in AllEpochs :
     /\ Eligible(e)
     /\ \/ TouchesArtifactInterval(e)
        \/ /\ overlap_correction
           /\ \E o \in AllEpochs : epochs[o].born # <<>> /\ WindowsOverlap(e, o)}

(* Two eligible epochs that lie in one subspan.                            *)
Linked(a, b) ==
  /\ overlap_correction
  /\ a # b
  /\ Eligible(a)
  /\ Eligible(b)
  /\ WindowsOverlap(a, b)

RECURSIVE ChainClosure(_)
ChainClosure(S) ==
  LET T == S \cup {b \in AllEpochs : \E a \in S : Linked(a, b)}
  IN IF T = S THEN S ELSE ChainClosure(T)

ArtifactWindowsUsed == {WindowOf(a) : a \in ArtifactSpanSet}

FixtureFlags(aon, born) ==
  /\ family = "test"
  /\ Len(epochs) = Len(aon)
  /\ \A e \in AllEpochs :
       /\ epochs[e].all_or_nothing = aon[e]
       /\ (epochs[e].born # <<>>) = born[e]

WithArtifact(w) ==
  Append(spans, DataSpan(Pos(w[1]), Pos(w[2]), 0, ArtifactLabel(family)))

(* The pop order does not matter: the loop run in any order leaves what    *)
(* the loop run in one order leaves.                                       *)
PopOrderIrrelevant ==
  (pc = "propagated" /\ run = 1) =>
    intrinsic_artifacts =
      PropagateAllOrNothing(spans, overlap_correction, epochs, BornLists)

-----------------------------------------------------------------------------
(* C5: with overlap_correction=true an eligible epoch carries              *)
(* _ALL_OR_NOTHING after the propagation iff it lies in a subspan with     *)
(* artifacts or a chain of pairwise-overlapping eligible epochs links it   *)
(* to such an epoch; one artifact on the first or on the last of the four  *)
(* chained epochs [0,100) [50,200) [150,300) [250,400) taints all four.    *)
C5_TaintedIffChainedToArtifact ==
  (pc = "propagated" /\ overlap_correction) =>
    /\ \A e \in AllEpochs :
         Eligible(e) => (Marked(intrinsic_artifacts, e) <=> e \in ChainClosure(Seeds))
    /\ ( /\ FixtureFlags(<<TRUE, TRUE, TRUE, TRUE>>, <<FALSE, FALSE, FALSE, FALSE>>)
         /\ ArtifactWindowsUsed \in {{<<10, 11>>}, {<<350, 360>>}} )
       => Tainted(intrinsic_artifacts) = AllEpochs

(* C5's case: the artifact [10,11) on the first of the four chained        *)
(* epochs has tainted all four.                                            *)
C5_Witness ==
  /\ pc = "propagated"
  /\ overlap_correction
  /\ FixtureFlags(<<TRUE, TRUE, TRUE, TRUE>>, <<FALSE, FALSE, FALSE, FALSE>>)
  /\ ArtifactWindowsUsed = {<<10, 11>>}
  /\ Tainted(intrinsic_artifacts) = {1, 2, 3, 4}

(* C6: with overlap_correction=false the propagation marks exactly the     *)
(* eligible epochs whose own window meets an artifact interval.            *)
C6_PrivateCopiesDoNotSpread ==
  (pc = "propagated" /\ ~overlap_correction) =>
    \A e \in AllEpochs :
       Marked(intrinsic_artifacts, e) <=> (Eligible(e) /\ TouchesArtifactInterval(e))

(* C6's case: a marked epoch overlaps an eligible epoch that stays         *)
(* unmarked, which also overlaps an all-or-nothing epoch born with an      *)
(* intrinsic artifact.                                                     *)
C6_Witness ==
  /\ pc = "propagated"
  /\ ~overlap_correction
  /\ \E e, o, b \in AllEpochs :
       /\ Marked(intrinsic_artifacts, e)
       /\ Eligible(o)
       /\ ~Marked(intrinsic_artifacts, o)
       /\ WindowsOverlap(e, o)
       /\ epochs[b].all_or_nothing
       /\ epochs[b].born # <<>>
       /\ WindowsOverlap(b, o)

(* C7: an epoch whose request has all_or_nothing=false never carries       *)
(* _ALL_OR_NOTHING, and a marked epoch is always linked to an artifact     *)
(* through all-or-nothing epochs that overlap directly: in the fixture     *)
(* with the third epoch not all-or-nothing and the artifacts [10,11) and   *)
(* [200,210), the fourth epoch stays unmarked.                             *)
C7_NonParticipantsBreakTheChain ==
  /\ \A e \in AllEpochs :
       ~epochs[e].all_or_nothing => ~Marked(intrinsic_artifacts, e)
  /\ pc = "propagated" =>
       /\ Tainted(intrinsic_artifacts) \subseteq ChainClosure(Seeds)
       /\ ( /\ overlap_correction
            /\ FixtureFlags(<<TRUE, TRUE, FALSE, TRUE>>, <<FALSE, FALSE, FALSE, FALSE>>)
            /\ ArtifactWindowsUsed = {<<10, 11>>, <<200, 210>>} )
          => Tainted(intrinsic_artifacts) = {1, 2}

(* C7's case: the fixture after the propagation; the artifact [200,210)    *)
(* lies on the third epoch, which overlaps the second and the fourth.      *)
C7_Witness ==
  /\ pc = "propagated"
  /\ overlap_correction
  /\ FixtureFlags(<<TRUE, TRUE, FALSE, TRUE>>, <<FALSE, FALSE, FALSE, FALSE>>)
  /\ ArtifactWindowsUsed = {<<10, 11>>, <<200, 210>>}
  /\ TouchesArtifactInterval(3)
  /\ WindowsOverlap(2, 3)
  /\ WindowsOverlap(3, 4)
  /\ ~WindowsOverlap(2, 4)
  /\ Marked(intrinsic_artifacts, 2)
  /\ ~Marked(intrinsic_artifacts, 4)

(* C8: with overlap_correction=true an all-or-nothing epoch born with an   *)
(* intrinsic artifact keeps its list as it was (the assertion before the   *)
(* append never fails), and after the propagation every eligible epoch     *)
(* that overlaps it is marked.                                             *)
C8_BornBadIsSourceNotTarget ==
  overlap_correction =>
    /\ raised = "none"
    /\ \A b \in AllEpochs :
         (epochs[b].all_or_nothing /\ epochs[b].born # <<>>) =>
           /\ intrinsic_artifacts[b] = epochs[b].born
           /\ pc = "propagated" =>
                \A o \in AllEpochs :
                   (Eligible(o) /\ WindowsOverlap(b, o)) =>
                      Marked(intrinsic_artifacts, o)

(* C8's case: the fixture whose second epoch is born with an intrinsic     *)
(* artifact, after the propagation.                                        *)
C8_Witness ==
  /\ pc = "propagated"
  /\ overlap_correction
  /\ FixtureFlags(<<TRUE, TRUE, TRUE, TRUE>>, <<FALSE, TRUE, FALSE, FALSE>>)
  /\ ArtifactWindowsUsed = {<<10, 11>>}
  /\ intrinsic_artifacts[2] = <<"born_bad">>
  /\ Tainted(intrinsic_artifacts) = {1, 3, 4}

(* C9: a second run of the propagation on the same spans finds no epoch    *)
(* to mark and leaves every intrinsic-artifact list as the first run left  *)
(* it.                                                                     *)
C9_SecondRunChangesNothing ==
  run = 2 =>
    /\ epochs_needing_artifact = {}
    /\ intrinsic_artifacts = first_result

(* C9's case: the second run has returned, and the first had marked an     *)
(* epoch next to an epoch it left unmarked.                                *)
C9_Witness ==
  /\ run = 2
  /\ pc = "propagated"
  /\ \E e, o \in AllEpochs :
       /\ Marked(first_result, e)
       /\ ~Marked(first_result, o)
       /\ WindowsOverlap(e, o)

(* C10: every epoch tainted by the propagation is also tainted by the      *)
(* propagation of the same input with one more artifact interval.          *)
C10_MoreArtifactsTaintMore ==
  (pc = "propagated" /\ run = 1) =>
    \A w \in ArtifactWindows(family) :
       Tainted(intrinsic_artifacts) \subseteq
         Tainted(PropagateAllOrNothing(WithArtifact(w), overlap_correction,
                                       epochs, BornLists))

(* C10's case: some epochs are tainted, and one more artifact interval     *)
(* taints more.                                                            *)
C10_Witness ==
  /\ pc = "propagated"
  /\ run = 1
  /\ Tainted(intrinsic_artifacts) # {}
  /\ \E w \in ArtifactWindows(family) :
       Tainted(PropagateAllOrNothing(WithArtifact(w), overlap_correction,
                                     epochs, BornLists))
         \ Tainted(intrinsic_artifacts) # {}

-----------------------------------------------------------------------------
(* The strategy selection and the design layout: multi_rerp_impl from the  *)
(* closing of the accounting on.  Its inputs are the rERP objects, which   *)
(* all refer to one global ArtifactInfo, and the strategy asked for.       *)

(* Bounds: the counters of the global bucket, the number of requests, and  *)
(* the number of design columns and of window ticks of one request.        *)
MaxCount == 2

MaxRerps == 2

MaxWidth == 2

(* ArtifactInfo(): every counter starts at zero, artifacts is an empty     *)
(* dict.                                                                   *)
ArtifactInfo ==
  [epochs_requested |-> 0, epochs_fully_accepted |-> 0,
   epochs_partially_accepted |-> 0, epochs_fully_rejected |-> 0,
   ticks_requested |-> 0, ticks_accepted |-> 0,
   event_ticks_requested |-> 0, event_ticks_accepted |-> 0,
   no_overlap_ticks_requested |-> 0, no_overlap_ticks_accepted |-> 0,
   artifacts |-> <<>>]

(* rERP(data_format, request, design_info, start_tick, stop_tick): no part *)
(* is set yet.  design_info is modelled by the number of its column_names, *)
(* a field not set yet by -1 or by the empty tuple.                        *)
rERP(columns, start_tick, stop_tick) ==
  [column_names |-> columns, start_tick |-> start_tick, stop_tick |-> stop_tick,
   ticks |-> stop_tick - start_tick,
   this_rerp_idx |-> -1, total_rerps |-> -1,
   by_epoch_design_offset |-> -1, continuous_design_offset |-> -1,
   global_artifact_info |-> <<>>, parts |-> {}]

(* rerp._set_context(this_rerp_idx, total_rerps)                           *)
SetContext(rerp, this_rerp_idx, total_rerps) ==
  [rerp EXCEPT !.this_rerp_idx = this_rerp_idx, !.total_rerps = total_rerps,
               !.parts = @ \cup {"context"}]

(* rerp._set_accounting(global_artifact_info, this_artifact_info): only    *)
(* the global bucket is read later on.                                     *)
SetAccounting(rerp, global_artifact_info) ==
  [rerp EXCEPT !.global_artifact_info = global_artifact_info,
               !.parts = @ \cup {"accounting"}]

PartialReason ==
  "at least one epoch is partially but not fully eliminated by an artifact (maybe you want all_or_nothing=True?)"

OverlapReason == "there is overlap and overlap correction was requested"

(* "; also, ".join(reasons), kept as the list of its pieces.               *)
RECURSIVE Join(_, _)
Join(sep, pieces) ==
  IF Len(pieces) <= 1 THEN pieces
  ELSE <<Head(pieces), sep>> \o Join(sep, Tail(pieces))

HaveOverlap_OrEqual(gai) == gai.event_ticks_accepted >= gai.ticks_accepted

HaveOverlap(gai) == gai.event_ticks_accepted > gai.ticks_accepted

HavePartialEpochs(gai) == gai.epochs_partially_accepted > 0

ByEpochPossible(gai) == ~(HaveOverlap(gai) \/ HavePartialEpochs(gai))

Reasons_FirstOnly(gai) ==
  IF HavePartialEpochs(gai) THEN <<PartialReason>>
  ELSE IF HaveOverlap(gai) THEN <<OverlapReason>> ELSE <<>>

Reasons(gai) ==
  (IF HavePartialEpochs(gai) THEN <<PartialReason>> ELSE <<>>)
    \o (IF HaveOverlap(gai) THEN <<OverlapReason>> ELSE <<>>)

(* _choose_strategy: what it returns, or the exception it raises and the   *)
(* pieces of that exception's message.                                     *)
ChooseStrategy(requested, rs) ==
  IF rs = <<>>
  THEN [returned |-> "none", raised |-> "AssertionError", message |-> <<>>]
  ELSE LET gai == rs[1].global_artifact_info
       IN CASE requested = "continuous" ->
                 [returned |-> requested, raised |-> "none", message |-> <<>>]
            [] requested = "auto" ->
                 [returned |-> IF ByEpochPossible(gai) THEN "by-epoch"
                               ELSE "continuous",
                  raised |-> "none", message |-> <<>>]
            [] requested = "by-epoch" ->
                 IF ~ByEpochPossible(gai)
                 THEN [returned |-> "none", raised |-> "ValueError",
                       message |->
                         <<"\"by-epoch\" regression strategy is not possible because: ">>
                           \o Join("; also, ", Reasons(gai))
                           \o <<". Use \"continuous\" strategy instead.">>]
                 ELSE [returned |-> requested, raised |-> "none",
                       message |-> <<>>]
            [] OTHER ->
                 [returned |-> "none", raised |-> "ValueError",
                  message |->
                    <<"Unknown regression strategy ", requested,
                      " requested; must be \"by-epoch\", \"continuous\", or \"auto\"">>]

(* rerp._set_layout: the offsets are stored and the part "layout" added;   *)
(* _add_part asserts that the part was not there.                          *)
SetLayout(rerp, by_epoch_design_offset, continuous_design_offset) ==
  [rerp EXCEPT !.by_epoch_design_offset = by_epoch_design_offset,
               !.continuous_design_offset = continuous_design_offset,
               !.parts = @ \cup {"layout"}]

(* One iteration of the loop of _layout_design_matrices over rerps[i..].   *)
RECURSIVE LayoutLoop_OffsetAfter(_, _, _, _)
LayoutLoop_OffsetAfter(rs, i, by_epoch_design_width, continuous_design_width) ==
  IF i > Len(rs)
  THEN [rerps |-> rs, raised |-> "none",
        widths |-> <<by_epoch_design_width, continuous_design_width>>]
  ELSE LET this_design_width == rs[i].column_names
           by_epoch == by_epoch_design_width + this_design_width
           continuous == continuous_design_width + this_design_width * rs[i].ticks
       IN LayoutLoop_OffsetAfter(
            [rs EXCEPT ![i] = SetLayout(rs[i], by_epoch, continuous)],
            i + 1, by_epoch, continuous)

RECURSIVE LayoutLoop(_, _, _, _)
LayoutLoop(rs, i, by_epoch_design_width, continuous_design_width) ==
  IF i > Len(rs)
  THEN [rerps |-> rs, raised |-> "none",
        widths |-> <<by_epoch_design_width, continuous_design_width>>]
  ELSE IF "layout" \in rs[i].parts
  THEN [rerps |-> rs, raised |-> "AssertionError", widths |-> <<>>]
  ELSE LET this_design_width == rs[i].column_names
       IN LayoutLoop(
            [rs EXCEPT ![i] = SetLayout(rs[i], by_epoch_design_width,
                                        continuous_design_width)],
            i + 1,
            by_epoch_design_width + this_design_width,
            continuous_design_width + this_design_width * rs[i].ticks)

LayoutDesignMatrices(rs) == LayoutLoop(rs, 1, 0, 0)

(* The worker of the chosen strategy, lines 184-191: the names             *)
(* design_width and expanded_design_width are bound nowhere, so either     *)
(* branch raises NameError; a third strategy fails the assertion.          *)
MakeWorker(strategy) ==
  CASE strategy = "by-epoch" -> "NameError"
    [] strategy = "continuous" -> "NameError"
    [] OTHER -> "AssertionError"

(* The inputs: the strategies a caller may ask for ("epoch" is the name    *)
(* the comment above multi_rerp uses, and no strategy), the shapes of the  *)
(* requests, and the global bucket's counters that _choose_strategy reads. *)
RequestedStrategies == {"auto", "by-epoch", "continuous", "epoch"}

Shapes == (1..MaxWidth) \X (1..MaxWidth)

GlobalBuckets ==
  {[ArtifactInfo EXCEPT !.ticks_accepted = t, !.event_ticks_accepted = et,
                        !.epochs_partially_accepted = p] :
     t \in 0..MaxCount, et \in 0..MaxCount, p \in 0..1}

RECURSIVE RerpList(_, _, _, _)
RerpList(shapes, i, n, gai) ==
  IF i > n THEN <<>>
  ELSE <<SetAccounting(SetContext(rERP(shapes[i][1], 0, shapes[i][2]), i - 1, n),
                       gai)>>
         \o RerpList(shapes, i + 1, n, gai)

InitStrategy ==
  /\ pc = "accounted"
  /\ raised = "none"
  /\ SweepIdle
  /\ ReduceIdle
  /\ RequestIdle
  /\ AccountIdle
  /\ requested_strategy \in RequestedStrategies
  /\ \E n \in 0..MaxRerps : \E shapes \in [1..n -> Shapes] :
       \E gai \in GlobalBuckets : rerps = RerpList(shapes, 1, n, gai)
  /\ regression_strategy = "none"
  /\ message = <<>>
  /\ design_widths = <<>>

(* regression_strategy = _choose_strategy(regression_strategy, rerps)      *)
ChooseStrategyCall ==
  /\ pc = "accounted"
  /\ LET r == ChooseStrategy(requested_strategy, rerps)
     IN /\ regression_strategy' = r.returned
        /\ raised' = r.raised
        /\ message' = r.message
        /\ pc' = IF r.raised = "none" THEN "chosen" ELSE "failed"
  /\ UNCHANGED <<sweep_vars, reduce_vars, request_vars, account_vars,
                 rerps, requested_strategy, design_widths>>

(* (by_epoch_design_width, continuous_design_width) =                      *)
(*     _layout_design_matrices(rerps)                                      *)
LayoutDesignMatricesCall ==
  /\ pc = "chosen"
  /\ LET r == LayoutDesignMatrices(rerps)
     IN /\ rerps' = r.rerps
        /\ design_widths' = r.widths
        /\ raised' = r.raised
        /\ pc' = IF r.raised = "none" THEN "laid out" ELSE "failed"
  /\ UNCHANGED <<sweep_vars, reduce_vars, request_vars, account_vars,
                 requested_strategy, regression_strategy, message>>

(* worker = _ByEpochWorker(design_width), or                               *)
(* worker = _ContinuousWorker(expanded_design_width)                       *)
MakeWorkerCall ==
  /\ pc = "laid out"
  /\ raised' = MakeWorker(regression_strategy)
  /\ pc' = "failed"
  /\ UNCHANGED <<sweep_vars, strategy_vars, reduce_vars, request_vars,
                 account_vars>>

NextStrategy ==
  \/ ChooseStrategyCall
  \/ LayoutDesignMatricesCall
  \/ MakeWorkerCall

SpecStrategy == InitStrategy /\ [][NextStrategy]_vars

(* The global bucket _choose_strategy reads.                               *)
gai == rerps[1].global_artifact_info

Chosen == pc \in {"chosen", "laid out"} \/ (pc = "failed" /\ rerps # <<>>)

(* C11: asked for "auto", _choose_strategy returns "by-epoch" exactly when *)
(* the global bucket shows no overlap (the accepted event-ticks do not     *)
(* exceed the accepted ticks) and no partially accepted epoch, and         *)
(* "continuous" otherwise; it raises nothing.                              *)
C11_AutoPicksByEpochIffFeasible ==
  (Chosen /\ requested_strategy = "auto") =>
    /\ regression_strategy \in {"by-epoch", "continuous"}
    /\ regression_strategy = "by-epoch" <=>
         /\ gai.event_ticks_accepted <= gai.ticks_accepted
         /\ gai.epochs_partially_accepted = 0
    /\ message = <<>>

C11_Witness ==
  /\ pc = "chosen"
  /\ requested_strategy = "auto"
  /\ regression_strategy = "continuous"
  /\ gai.epochs_partially_accepted = 0
  /\ gai.event_ticks_accepted > gai.ticks_accepted

(* C12: asked for "by-epoch", _choose_strategy returns "by-epoch" when the *)
(* global bucket shows neither overlap nor partially accepted epochs;      *)
(* otherwise it raises ValueError, and the message names the partial       *)
(* epochs (with the all_or_nothing suggestion) exactly when there are      *)
(* some and the overlap exactly when there is some; it never returns       *)
(* "continuous".                                                           *)
C12_ByEpochOrDescriptiveError ==
  (Chosen /\ requested_strategy = "by-epoch") =>
    LET overlap == gai.event_ticks_accepted > gai.ticks_accepted
        partial == gai.epochs_partially_accepted > 0
    IN /\ regression_strategy # "continuous"
       /\ (~overlap /\ ~partial) =>
            /\ regression_strategy = "by-epoch"
            /\ message = <<>>
            /\ raised \in {"none", "NameError"}
       /\ (overlap \/ partial) =>
            /\ regression_strategy = "none"
            /\ pc = "failed"
            /\ raised = "ValueError"
            /\ PartialReason \in Range(message) <=> partial
            /\ OverlapReason \in Range(message) <=> overlap

C12_Witness ==
  /\ pc = "failed"
  /\ requested_strategy = "by-epoch"
  /\ raised = "ValueError"
  /\ PartialReason \in Range(message)
  /\ OverlapReason \in Range(message)

(* C13: whenever by-epoch fitting is feasible for an input, the by-epoch   *)
(* fit and the continuous fit of that input produce equivalent             *)
(* coefficients.  Coefficients exist only when the fit returns, so for a   *)
(* feasible input no strategy a caller may ask for ends in an exception.   *)
C13_AsStated ==
  (/\ rerps # <<>>
   /\ requested_strategy \in {"auto", "by-epoch", "continuous"}
   /\ gai.event_ticks_accepted <= gai.ticks_accepted
   /\ gai.epochs_partially_accepted = 0)
    => raised = "none"

(* The predictor columns, and the predictor columns times window ticks, of *)
(* the requests before request i.                                          *)
RECURSIVE ColumnsBefore(_)
ColumnsBefore(i) ==
  IF i <= 1 THEN 0 ELSE ColumnsBefore(i - 1) + rerps[i - 1].column_names

RECURSIVE ExpandedBefore(_)
ExpandedBefore(i) ==
  IF i <= 1 THEN 0
  ELSE ExpandedBefore(i - 1) + rerps[i - 1].column_names * rerps[i - 1].ticks

(* C17: each request's compact offset is the sum of the column counts of   *)
(* the requests before it, its expanded offset the sum of their columns    *)
(* times ticks; the two totals are returned; every column below a total    *)
(* lies in the range of exactly one request.                               *)
C17_OffsetsArePrefixSums ==
  design_widths # <<>> =>
    LET n == Len(rerps)
    IN /\ \A i \in 1..n :
            /\ rerps[i].by_epoch_design_offset = ColumnsBefore(i)
            /\ rerps[i].continuous_design_offset = ExpandedBefore(i)
       /\ design_widths = <<ColumnsBefore(n + 1), ExpandedBefore(n + 1)>>
       /\ \A c \in 0..(design_widths[1] - 1) :
            Cardinality({i \in 1..n :
              /\ rerps[i].by_epoch_design_offset <= c
              /\ c < rerps[i].by_epoch_design_offset + rerps[i].column_names}) = 1
       /\ \A c \in 0..(design_widths[2] - 1) :
            Cardinality({i \in 1..n :
              /\ rerps[i].continuous_design_offset <= c
              /\ c < rerps[i].continuous_design_offset
                       + rerps[i].column_names * rerps[i].ticks}) = 1

C17_Witness ==
  /\ pc = "laid out"
  /\ Len(rerps) = 2
  /\ rerps[1].column_names = 1
  /\ rerps[1].ticks = 2
  /\ rerps[2].column_names = 2
  /\ rerps[2].by_epoch_design_offset = 1
  /\ rerps[2].continuous_design_offset = 2
  /\ design_widths = <<3, 2 + 2 * rerps[2].ticks>>

-----------------------------------------------------------------------------
(* The reduction, lines 192-196 of multi_rerp_impl: the results of the     *)
(* jobs arrive in any order, each is absorbed into one accumulator, and    *)
(* the accumulator is solved once.  XtXIncrementalLS and                   *)
(* parimap_unordered are not among the repository's files here; they are   *)
(* modelled after the contract the specification gives them.  A job is a   *)
(* strip of one regressor value x and one response value y per row, or a   *)
(* job whose worker raises; the sufficient statistic is the pair of        *)
(* cross-products (x'x, x'y); the fit is the quotient x'y / x'x in lowest  *)
(* terms.                                                                  *)

(* Bound: the number of jobs of one batch.                                 *)
MaxJobs == 3

(* The rows a job's strip may hold: <<x, y>>.                              *)
Rows == {<<1, 0>>, <<1, 1>>, <<2, 1>>}

Job(row, fails) == [x_strip |-> row[1], y_strip |-> row[2], fails |-> fails]

(* XtXIncrementalLS(): nothing accumulated yet.                            *)
XtXIncrementalLS == [xtx |-> 0, xty |-> 0]

(* XtXIncrementalLS.append_top_half(x_strip, y_strip): the partial         *)
(* statistic of one strip.                                                 *)
AppendTopHalf(x_strip, y_strip) ==
  [xtx |-> x_strip * x_strip, xty |-> x_strip * y_strip]

(* model.append_bottom_half(job_result): the merge of a partial statistic  *)
(* into the running one.                                                   *)
AppendBottomHalf(m, job_result) ==
  [xtx |-> m.xtx + job_result.xtx, xty |-> m.xty + job_result.xty]

RECURSIVE Gcd(_, _)
Gcd(a, b) == IF b = 0 THEN a ELSE Gcd(b, a % b)

(* model.fit().coef(): the solution of x'x * beta = x'y, a fraction in     *)
(* lowest terms; no solution is determined when x'x is zero.               *)
Fit(m) ==
  IF m.xtx = 0 THEN "undetermined"
  ELSE LET g == Gcd(m.xtx, m.xty) IN <<m.xty \div g, m.xtx \div g>>

(* The worker applied to one job: its partial statistic.                   *)
Worker(job) == AppendTopHalf(job.x_strip, job.y_strip)

RECURSIVE JobList(_, _, _)
JobList(f, i, n) ==
  IF i > n THEN <<>> ELSE <<Job(f[i][1], f[i][2])>> \o JobList(f, i + 1, n)

InitReduce ==
  /\ pc = "reduce"
  /\ raised = "none"
  /\ SweepIdle
  /\ StrategyIdle
  /\ RequestIdle
  /\ AccountIdle
  /\ \E n \in 0..MaxJobs : \E f \in [1..n -> Rows \X BOOLEAN] :
       /\ jobs = JobList(f, 1, n)
       /\ jobs_iter = 1..n
  /\ model = XtXIncrementalLS
  /\ betas = "none"

(* parimap_unordered(worker, jobs_iter): what it may deliver next is the   *)
(* outcome of any job not delivered yet, the worker's result or the        *)
(* exception the worker raised.                                            *)
ParimapUnordered(remaining) ==
  {[job |-> j,
    raised |-> IF jobs[j].fails THEN "JobError" ELSE "none",
    job_result |-> Worker(jobs[j])] : j \in remaining}

(* One turn of the for loop: the next outcome is absorbed, or its          *)
(* exception raised; the loop has no handler, so the exception leaves      *)
(* multi_rerp_impl.                                                        *)
AbsorbResult_SkipFailed ==
  /\ pc = "reduce"
  /\ \E d \in ParimapUnordered(jobs_iter) :
       /\ jobs_iter' = jobs_iter \ {d.job}
       /\ model' = IF d.raised # "none" THEN model
                   ELSE AppendBottomHalf(model, d.job_result)
  /\ UNCHANGED <<sweep_vars, strategy_vars, request_vars, account_vars,
                 pc, raised, jobs, betas>>

AbsorbResult_FreshModel ==
  /\ pc = "reduce"
  /\ \E d \in ParimapUnordered(jobs_iter) :
       IF d.raised # "none"
       THEN /\ pc' = "failed"
            /\ raised' = d.raised
            /\ UNCHANGED <<jobs_iter, model>>
       ELSE /\ jobs_iter' = jobs_iter \ {d.job}
            /\ model' = AppendBottomHalf(XtXIncrementalLS, d.job_result)
            /\ UNCHANGED <<pc, raised>>
  /\ UNCHANGED <<sweep_vars, strategy_vars, request_vars, account_vars,
                 jobs, betas>>

AbsorbResult ==
  /\ pc = "reduce"
  /\ \E d \in ParimapUnordered(jobs_iter) :
       IF d.raised # "none"
       THEN /\ pc' = "failed"
            /\ raised' = d.raised
            /\ UNCHANGED <<jobs_iter, model>>
       ELSE /\ jobs_iter' = jobs_iter \ {d.job}
            /\ model' = AppendBottomHalf(model, d.job_result)
            /\ UNCHANGED <<pc, raised>>
  /\ UNCHANGED <<sweep_vars, strategy_vars, request_vars, account_vars,
                 jobs, betas>>

(* result = model.fit(); betas = result.coef(): after the loop.            *)
FitCall ==
  /\ pc = "reduce"
  /\ jobs_iter = {}
  /\ betas' = Fit(model)
  /\ pc' = "fitted"
  /\ UNCHANGED <<sweep_vars, strategy_vars, request_vars, account_vars,
                 raised, jobs, jobs_iter, model>>

NextReduce ==
  \/ AbsorbResult
  \/ FitCall

SpecReduce == InitReduce /\ [][NextReduce]_vars

(* The accumulator after the jobs 1..n were absorbed in list order.        *)
RECURSIVE AbsorbedInListOrder(_)
AbsorbedInListOrder(n) ==
  IF n = 0 THEN XtXIncrementalLS
  ELSE AppendBottomHalf(AbsorbedInListOrder(n - 1), Worker(jobs[n]))

(* C14: whatever the order in which the jobs complete, once each job's     *)
(* partial statistic has been absorbed exactly once the fit yields the     *)
(* coefficients that absorbing the jobs in list order yields.              *)
C14_FitIndependentOfCompletionOrder ==
  pc = "fitted" => betas = Fit(AbsorbedInListOrder(Len(jobs)))

C14_Witness ==
  /\ pc = "fitted"
  /\ Len(jobs) = 3
  /\ jobs[1].x_strip # jobs[2].x_strip
  /\ jobs[2].y_strip # jobs[3].y_strip
  /\ betas = <<1, 2>>

(* C15: when some job fails, the accumulator is never solved and no        *)
(* coefficients are returned; once every other result is in, the fit has   *)
(* failed with the job's exception.                                        *)
C15_OneFailedJobFailsTheBatch ==
  (\E j \in 1..Len(jobs) : jobs[j].fails) =>
    /\ betas = "none"
    /\ pc # "fitted"
    /\ pc = "failed" => raised = "JobError"
    /\ jobs_iter # {}

C15_Witness ==
  /\ pc = "failed"
  /\ raised = "JobError"
  /\ Len(jobs) = 3
  /\ Cardinality(jobs_iter) = 1
  /\ model.xtx > 0
  /\ betas = "none"

-----------------------------------------------------------------------------
(* The _Accountant.                                                        *)

(* _Accountant(rerps): a global bucket, one bucket per rERP, and two empty *)
(* sets of epochs.                                                         *)
Accountant(rs) ==
  [global_bucket |-> ArtifactInfo,
   rerp_buckets |-> [i \in 1..Len(rs) |-> ArtifactInfo],
   epochs_with_artifacts |-> {},
   epochs_with_data |-> {}]

(* count as the specification describes it: every counter of the global    *)
(* bucket is updated and nothing is raised.                                *)
Count_AsSpecified(acct, subspan) ==
  IF subspan.epochs = {}
  THEN [accountant |-> acct, raised |-> "none"]
  ELSE LET ticks == subspan.stop[2] - subspan.start[2]
           events == Cardinality(subspan.epochs)
           no_overlap_ticks == IF events = 1 THEN ticks ELSE 0
           clean == subspan.artifacts = {}
           g == acct.global_bucket
       IN [accountant |->
             [acct EXCEPT !.global_bucket =
                [g EXCEPT
                   !.ticks_requested = @ + ticks,
                   !.event_ticks_requested = @ + ticks * events,
                   !.no_overlap_ticks_requested = @ + no_overlap_ticks,
                   !.ticks_accepted = @ + (IF clean THEN ticks ELSE 0),
                   !.event_ticks_accepted =
                      @ + (IF clean THEN ticks * events ELSE 0),
                   !.no_overlap_ticks_accepted =
                      @ + (IF clean THEN no_overlap_ticks ELSE 0)]],
           raised |-> "none"]

(* accountant.count(subspan).  A subspan without epochs returns at once.   *)
(* For any other subspan the first turn of the loop over its epochs, line  *)
(* 871, reads the name bucket_epochs, which is bound nowhere (line 866     *)
(* binds bucket_events): NameError, before any counter is written.         *)
Count(acct, subspan) ==
  IF subspan.epochs = {}
  THEN [accountant |-> acct, raised |-> "none"]
  ELSE [accountant |-> acct, raised |-> "NameError"]

(* accountant.close(): _set_epoch_stats reads the unbound name             *)
(* epochs_with_artifacts (line 910) for the first epoch of all_epochs;     *)
(* with no epoch at all every loop is empty and the rERP objects get       *)
(* their buckets.                                                          *)
Close(acct, rs) ==
  IF acct.epochs_with_data \cup acct.epochs_with_artifacts # {}
  THEN [rerps |-> rs, raised |-> "NameError"]
  ELSE [rerps |-> [i \in 1..Len(rs) |->
                     SetAccounting(rs[i], acct.global_bucket)],
        raised |-> "none"]

(* The subspans a caller may hand to count: a stretch of one recording,    *)
(* any set of the two epochs, with or without an artifact.                 *)
CountInputs ==
  {DataSubSpan(Pos(0), Pos(stop), eps, arts) :
     stop \in 1..MaxTick, eps \in SUBSET {1, 2}, arts \in {{}, {"a1"}}}

InitAccount ==
  /\ pc = "counting"
  /\ raised = "none"
  /\ family = "none"
  /\ overlap_correction = TRUE
  /\ epochs = <<Epoch(0, 0, MaxTick, FALSE, <<>>), Epoch(0, 0, MaxTick, FALSE, <<>>)>>
  /\ spans = <<>>
  /\ intrinsic_artifacts = <<<<>>, <<>>>>
  /\ overlap_graph = <<>>
  /\ epochs_needing_artifact = {}
  /\ run = 0
  /\ first_result = <<>>
  /\ subspans = <<>>
  /\ rerps = <<SetContext(rERP(1, 0, MaxTick), 0, 2),
               SetContext(rERP(1, 0, MaxTick), 1, 2)>>
  /\ requested_strategy = "none"
  /\ regression_strategy = "none"
  /\ message = <<>>
  /\ design_widths = <<>>
  /\ ReduceIdle
  /\ RequestIdle
  /\ accountant = Accountant(rerps)
  /\ consumed = 0

(* accountant.count(subspan), for the next subspan of a stream.            *)
CountCall ==
  /\ pc = "counting"
  /\ consumed < MaxSpans
  /\ \E subspan \in CountInputs :
       LET r == Count(accountant, subspan)
       IN /\ subspans' = Append(subspans, subspan)
          /\ accountant' = r.accountant
          /\ raised' = r.raised
          /\ pc' = IF r.raised = "none" THEN "counting" ELSE "failed"
  /\ consumed' = consumed + 1
  /\ UNCHANGED <<family, overlap_correction, epochs, spans, intrinsic_artifacts,
                 overlap_graph, epochs_needing_artifact, run, first_result,
                 strategy_vars, reduce_vars, request_vars>>

(* accountant.close(), after the last subspan of the stream.               *)
CloseCall ==
  /\ pc = "counting"
  /\ LET r == Close(accountant, rerps)
     IN /\ rerps' = r.rerps
        /\ raised' = r.raised
        /\ pc' = IF r.raised = "none" THEN "closed" ELSE "failed"
  /\ UNCHANGED <<sweep_vars, reduce_vars, request_vars, account_vars,
                 requested_strategy, regression_strategy, message,
                 design_widths>>

NextAccount ==
  \/ CountCall
  \/ CloseCall

SpecAccount == InitAccount /\ [][NextAccount]_vars

(* The sum of f over the subspans consumed so far.                         *)
RECURSIVE SumOver(_, _)
SumOver(f(_), n) ==
  IF n = 0 THEN 0 ELSE SumOver(f, n - 1) + f(subspans[n])

Length(subspan) == subspan.stop[2] - subspan.start[2]

Requested(subspan) == IF subspan.epochs # {} THEN Length(subspan) ELSE 0

EventTicks(subspan) == Length(subspan) * Cardinality(subspan.epochs)

NoOverlap(subspan) ==
  IF Cardinality(subspan.epochs) = 1 THEN Length(subspan) ELSE 0

Accepted(f(_), subspan) == IF subspan.artifacts = {} THEN f(subspan) ELSE 0

AcceptedRequested(subspan) == Accepted(Requested, subspan)

AcceptedEventTicks(subspan) == Accepted(EventTicks, subspan)

AcceptedNoOverlap(subspan) == Accepted(NoOverlap, subspan)

(* C20: after the Accountant has consumed any sequence of subspans, the    *)
(* six tick counters of the global bucket are the sums, over the subspans  *)
(* consumed, of the length, the length times the number of live epochs,    *)
(* and the length where one epoch is live, and the same for the subspans   *)
(* without artifacts; count raises nothing.                                *)
C20_AsStated ==
  LET g == accountant.global_bucket
      n == Len(subspans)
  IN /\ raised = "none"
     /\ g.ticks_requested = SumOver(Requested, n)
     /\ g.event_ticks_requested = SumOver(EventTicks, n)
     /\ g.no_overlap_ticks_requested = SumOver(NoOverlap, n)
     /\ g.ticks_accepted = SumOver(AcceptedRequested, n)
     /\ g.event_ticks_accepted = SumOver(AcceptedEventTicks, n)
     /\ g.no_overlap_ticks_accepted = SumOver(AcceptedNoOverlap, n)

-----------------------------------------------------------------------------
(* The span extraction: _check_unique_names, _artifact_spans and           *)
(* _epoch_info_and_spans.  A dataset is its sampling rate hz, the ticks of *)
(* its recordings (recspan_infos, ids 0, 1, ...) and its events; an event  *)
(* carries the set of queries it matches, whether its predictors are all   *)
(* there, and its artifact type with whether that is a string.             *)

(* Bound: the largest time, in ms, a request may name.                     *)
MaxMs == 22

Event(recspan_id, start_tick, stop_tick, matches, a, artifact_type, basestring) ==
  [recspan_id |-> recspan_id, start_tick |-> start_tick, stop_tick |-> stop_tick,
   matches |-> matches, a |-> a, artifact_type |-> artifact_type,
   basestring |-> basestring]

rERPRequest(event_query, start_time, stop_time, name, all_or_nothing) ==
  [event_query |-> event_query, start_time |-> start_time,
   stop_time |-> stop_time, name |-> name, all_or_nothing |-> all_or_nothing]

(* dataset.events(query), dataset.events_query(query)                      *)
EventsQuery(ds, query) == SelectSeq(ds.events, LAMBDA ev : query \in ev.matches)

(* data_format.ms_to_ticks(ms, round=...): tick t is sampled at            *)
(* t * 1000 / hz ms; DataFormat is not among the repository's files here   *)
(* and is modelled after the expectations of test__epoch_info_and_spans.   *)
MsToTicks(hz, ms, round) ==
  IF round = "up" THEN -((-(ms * hz)) \div 1000) ELSE (ms * hz) \div 1000

(* Lines 423-428: the closed interval of times as a half-open interval of  *)
(* ticks <<start_tick, stop_tick>>.                                        *)
TickWindow_RoundedOutwards(hz, start_time, stop_time) ==
  <<MsToTicks(hz, start_time, "down"), MsToTicks(hz, stop_time, "up") + 1>>

TickWindow_StopNotShifted(hz, start_time, stop_time) ==
  <<MsToTicks(hz, start_time, "up"), MsToTicks(hz, stop_time, "down")>>

TickWindow(hz, start_time, stop_time) ==
  <<MsToTicks(hz, start_time, "up"), MsToTicks(hz, stop_time, "down") + 1>>

(* The loop of _epoch_info_and_spans over events[i..]: the epochs and      *)
(* their spans; the epoch of the first event gets the identity first.      *)
RECURSIVE EpochLoop(_, _, _, _, _)
EpochLoop(events, i, window, all_or_nothing, first) ==
  IF i > Len(events) THEN [epochs |-> <<>>, spans |-> <<>>]
  ELSE LET event == events[i]
           epoch_start == window[1] + event.start_tick
           epoch_stop == window[2] + event.start_tick
           born == IF event.a THEN <<>> ELSE <<"_MISSING_PREDICTOR">>
           rest == EpochLoop(events, i + 1, window, all_or_nothing, first)
       IN [epochs |->
             <<Epoch(event.recspan_id, epoch_start, epoch_stop - epoch_start,
                     all_or_nothing, born)>> \o rest.epochs,
           spans |->
             <<DataSpan(<<event.recspan_id, epoch_start>>,
                        <<event.recspan_id, epoch_stop>>,
                        first + i - 1, "None")>> \o rest.spans]

(* _epoch_info_and_spans(dataset, rerp_request): ValueError when the       *)
(* window holds no tick; the design has one column here.                   *)
EpochInfoAndSpans(ds, rerp_request, first) ==
  LET window == TickWindow(ds.hz, rerp_request.start_time, rerp_request.stop_time)
  IN IF window[2] <= window[1]
     THEN [raised |-> "ValueError", rerp |-> <<>>, epochs |-> <<>>, spans |-> <<>>]
     ELSE LET r == EpochLoop(EventsQuery(ds, rerp_request.event_query), 1, window,
                             rerp_request.all_or_nothing, first)
          IN [raised |-> "none", rerp |-> rERP(1, window[1], window[2]),
              epochs |-> r.epochs, spans |-> r.spans]

(* The dataset of test__epoch_info_and_spans, at either sampling rate the  *)
(* test uses.                                                              *)
TestDataset(hz) ==
  [hz |-> hz,
   recspan_infos |-> <<100, 100>>,
   events |->
     <<Event(0, 0, 1, {"include"}, TRUE, "none", TRUE),
       Event(0, 10, 11, {"include"}, TRUE, "none", TRUE),
       Event(0, 20, 21, {}, TRUE, "none", TRUE),
       Event(0, 30, 31, {}, TRUE, "none", TRUE),
       Event(1, 40, 41, {"include"}, FALSE, "none", TRUE),
       Event(1, 50, 51, {"include"}, TRUE, "none", TRUE)>>]

InitEpochs ==
  /\ pc = "request"
  /\ raised = "none"
  /\ SweepIdle
  /\ StrategyIdle
  /\ ReduceIdle
  /\ AccountIdle
  /\ \E hz \in {250, 1000} : dataset = TestDataset(hz)
  /\ \E start_time \in (-MaxMs)..MaxMs : \E stop_time \in start_time..MaxMs :
       \E all_or_nothing \in BOOLEAN :
         rerp_requests = <<rERPRequest("include", start_time, stop_time, "req1",
                                       all_or_nothing)>>
  /\ queries = 0
  /\ analysis_subspans = <<>>

(* rerp, epoch_spans = _epoch_info_and_spans(dataset, rerp_request);       *)
(* rerps.append(rerp); spans.extend(epoch_spans)                           *)
EpochInfoAndSpansCall ==
  /\ pc = "request"
  /\ LET r == EpochInfoAndSpans(dataset, rerp_requests[1], 1)
     IN /\ raised' = r.raised
        /\ pc' = IF r.raised = "none" THEN "epochs" ELSE "failed"
        /\ rerps' = IF r.raised = "none" THEN <<r.rerp>> ELSE rerps
        /\ epochs' = r.epochs
        /\ spans' = r.spans
        /\ intrinsic_artifacts' = BornOf(r.epochs)
  /\ UNCHANGED <<family, overlap_correction, overlap_graph,
                 epochs_needing_artifact, run, first_result, subspans,
                 requested_strategy, regression_strategy, message, design_widths,
                 reduce_vars, request_vars, account_vars>>

NextEpochInfo == EpochInfoAndSpansCall

SpecEpochs == InitEpochs /\ [][NextEpochInfo]_vars

(* The ticks sampled within the closed interval of times of the request:   *)
(* tick t is sampled at t * 1000 / hz ms.                                  *)
TicksWithinBounds ==
  {t \in (-MaxMs)..MaxMs :
     /\ rerp_requests[1].start_time * dataset.hz <= t * 1000
     /\ t * 1000 <= rerp_requests[1].stop_time * dataset.hz}

(* C19: _epoch_info_and_spans rounds the start up and the stop down, so    *)
(* the half-open window of ticks is exactly the ticks sampled within       *)
(* [start_time, stop_time]; the request is rejected with ValueError        *)
(* exactly when there is no such tick; every epoch has the tick count of   *)
(* the window, which is positive, and starts at its event's start tick     *)
(* plus the window's start.                                                *)
C19_WindowWithinRequestedBounds ==
  pc # "request" =>
    LET events == EventsQuery(dataset, rerp_requests[1].event_query)
    IN /\ (raised = "ValueError") <=> (TicksWithinBounds = {})
       /\ (pc = "failed") <=> (raised = "ValueError")
       /\ pc = "failed" => epochs = <<>> /\ rerps = <<>>
       /\ pc = "epochs" =>
            /\ rerps[1].start_tick .. (rerps[1].stop_tick - 1) = TicksWithinBounds
            /\ Len(epochs) = Len(events)
            /\ Len(spans) = Len(events)
            /\ \A i \in 1..Len(epochs) :
                 /\ epochs[i].ticks > 0
                 /\ epochs[i].ticks = rerps[1].stop_tick - rerps[1].start_tick
                 /\ epochs[i].start_tick = events[i].start_tick + rerps[1].start_tick
                 /\ epochs[i].recspan_id = events[i].recspan_id
                 /\ spans[i].start = <<events[i].recspan_id, epochs[i].start_tick>>
                 /\ spans[i].stop =
                      <<events[i].recspan_id, epochs[i].start_tick + epochs[i].ticks>>
                 /\ spans[i].epoch = i

(* The request of the test, [-10 ms, 10 ms] at 250 Hz, becomes the ticks   *)
(* [-2, 3) around each of the four matching events.                        *)
C19_Witness ==
  /\ pc = "epochs"
  /\ dataset.hz = 250
  /\ rerp_requests[1].start_time = -10
  /\ rerp_requests[1].stop_time = 10
  /\ rerps[1].start_tick = -2
  /\ rerps[1].stop_tick = 3
  /\ Len(epochs) = 4
  /\ epochs[3].start_tick = 38
  /\ epochs[3].born = <<"_MISSING_PREDICTOR">>

-----------------------------------------------------------------------------
(* The head of multi_rerp_impl, lines 136-176: the names are checked, the  *)
(* artifact spans and the epoch spans are extracted from the dataset, the  *)
(* all-or-nothing artifacts are propagated, and the subspans are counted   *)
(* and filtered.                                                           *)

(* Bound: the largest number of requests of a batch.                       *)
MaxRequests == 2

(* The ticks of the no-recording sentinels.  The source has -2**31 and     *)
(* 2**31; TLC's integers end at 2**31 - 1, which stands for 2**31 here.    *)
(* The ticks of the model stay far from both.                              *)
NegInfTick == -2147483647 - 1

PosInfTick == 2147483647

(* The loop of _check_unique_names over rerp_requests[i..], rerp_names     *)
(* being the names seen so far, with the name never added to the set.      *)
RECURSIVE CheckNamesLoop_NeverAdds(_, _, _)
CheckNamesLoop_NeverAdds(reqs, i, rerp_names) ==
  IF i > Len(reqs) THEN "none"
  ELSE IF reqs[i].name \in rerp_names THEN "ValueError"
  ELSE CheckNamesLoop_NeverAdds(reqs, i + 1, rerp_names)

(* The loop of _check_unique_names over rerp_requests[i..], rerp_names     *)
(* being the names seen so far.                                            *)
RECURSIVE CheckNamesLoop(_, _, _)
CheckNamesLoop(reqs, i, rerp_names) ==
  IF i > Len(reqs) THEN "none"
  ELSE IF reqs[i].name \in rerp_names THEN "ValueError"
  ELSE CheckNamesLoop(reqs, i + 1, rerp_names \cup {reqs[i].name})

(* _check_unique_names(rerp_requests): what it raises.                     *)
CheckUniqueNames(reqs) == CheckNamesLoop(reqs, 1, {})

(* The first loop of _artifact_spans over recspan_infos[i..], with the     *)
(* trailing sentinel starting one tick after the recording's end.          *)
RECURSIVE NoRecordingSpans_EndOffByOne(_, _)
NoRecordingSpans_EndOffByOne(recspan_infos, i) ==
  IF i > Len(recspan_infos) THEN <<>>
  ELSE <<DataSpan(<<i - 1, NegInfTick>>, <<i - 1, 0>>, 0, "_NO_RECORDING"),
         DataSpan(<<i - 1, recspan_infos[i] + 1>>, <<i - 1, PosInfTick>>, 0,
                  "_NO_RECORDING")>>
       \o NoRecordingSpans_EndOffByOne(recspan_infos, i + 1)

(* The first loop of _artifact_spans over recspan_infos[i..]: recording    *)
(* i - 1 has recspan_infos[i] ticks.                                       *)
RECURSIVE NoRecordingSpans(_, _)
NoRecordingSpans(recspan_infos, i) ==
  IF i > Len(recspan_infos) THEN <<>>
  ELSE <<DataSpan(<<i - 1, NegInfTick>>, <<i - 1, 0>>, 0, "_NO_RECORDING"),
         DataSpan(<<i - 1, recspan_infos[i]>>, <<i - 1, PosInfTick>>, 0,
                  "_NO_RECORDING")>>
       \o NoRecordingSpans(recspan_infos, i + 1)

(* The second loop of _artifact_spans over artifact_events[i..]: the spans *)
(* yielded and the exception that ends the generator, if any.              *)
RECURSIVE ArtifactEventSpans(_, _)
ArtifactEventSpans(artifact_events, i) ==
  IF i > Len(artifact_events) THEN [spans |-> <<>>, raised |-> "none"]
  ELSE LET artifact_event == artifact_events[i]
           rest == ArtifactEventSpans(artifact_events, i + 1)
       IN IF ~artifact_event.basestring
          THEN [spans |-> <<>>, raised |-> "TypeError"]
          ELSE [spans |->
                  <<DataSpan(<<artifact_event.recspan_id, artifact_event.start_tick>>,
                             <<artifact_event.recspan_id, artifact_event.stop_tick>>,
                             0, artifact_event.artifact_type)>> \o rest.spans,
                raised |-> rest.raised]

(* list(_artifact_spans(dataset, artifact_query, artifact_type_field)), as *)
(* far as the generator gets.                                              *)
ArtifactSpansOf(ds, artifact_query) ==
  LET r == ArtifactEventSpans(EventsQuery(ds, artifact_query), 1)
  IN [spans |-> NoRecordingSpans(ds.recspan_infos, 1) \o r.spans,
      raised |-> r.raised]

(* The datasets of the batch: 250 Hz, recording 0 of ticks ticks and       *)
(* recording 1 of one tick; an event at the first tick of recording 0,     *)
(* possibly one at its last tick, with or without its predictor, one on    *)
(* recording 1, and possibly an artifact event over the first tick, whose  *)
(* type may fail to be a string.                                           *)
BatchDataset(ticks, second_event, artifact) ==
  [hz |-> 250,
   recspan_infos |-> <<ticks, 1>>,
   events |->
     <<Event(0, 0, 1, {"q1"}, TRUE, "none", TRUE)>>
     \o (IF second_event # "none"
         THEN <<Event(0, ticks - 1, ticks, {"q1", "q2"}, second_event = "good",
                      "none", TRUE)>>
         ELSE <<>>)
     \o <<Event(1, 0, 1, {"q2"}, TRUE, "none", TRUE)>>
     \o (IF artifact = "none" THEN <<>>
         ELSE <<Event(0, 0, 1, {"artifact"}, TRUE, "a1", artifact = "a1")>>)]

(* The requests of a batch: windows of ticks [-1, 2), [0, 2) and [0, 1)    *)
(* at 250 Hz and the empty window of [1 ms, 3 ms]; "q3" matches no event.  *)
BatchRequests ==
  {rERPRequest(shape[1], shape[2], shape[3], name, shape[4]) :
     shape \in {<<"q1", -4, 4, FALSE>>, <<"q1", 0, 4, TRUE>>,
                <<"q3", 0, 0, FALSE>>, <<"q2", 1, 3, FALSE>>},
     name \in {"req1", "req2"}}

InitBatch ==
  /\ pc = "batch"
  /\ raised = "none"
  /\ family = "none"
  /\ overlap_correction \in BOOLEAN
  /\ epochs = <<>>
  /\ spans = <<>>
  /\ intrinsic_artifacts = <<>>
  /\ overlap_graph = <<>>
  /\ epochs_needing_artifact = {}
  /\ run = 0
  /\ first_result = <<>>
  /\ subspans = <<>>
  /\ StrategyIdle
  /\ ReduceIdle
  /\ AccountIdle
  /\ \E ticks \in 1..MaxTick :
       \E second_event \in {"none", "good", "missing predictor"} :
       \E artifact \in {"none", "a1", "not a string"} :
         dataset = BatchDataset(ticks, second_event, artifact)
  /\ \E n \in 1..MaxRequests : rerp_requests \in [1..n -> BatchRequests]
  /\ queries = 0
  /\ analysis_subspans = <<>>

(* Line 136: _check_unique_names(rerp_requests)                            *)
CheckUniqueNamesCall ==
  /\ pc = "batch"
  /\ raised' = CheckUniqueNames(rerp_requests)
  /\ pc' = IF raised' = "none" THEN "names checked" ELSE "failed"
  /\ UNCHANGED <<sweep_vars, strategy_vars, reduce_vars, request_vars,
                 account_vars>>

(* Lines 140-142: spans = []; spans.extend(_artifact_spans(...)).  The     *)
(* generator queries the dataset once.                                     *)
ArtifactSpansCall ==
  /\ pc = "names checked"
  /\ LET r == ArtifactSpansOf(dataset, "artifact")
     IN /\ spans' = r.spans
        /\ raised' = r.raised
        /\ pc' = IF r.raised = "none" THEN "artifacts" ELSE "failed"
  /\ queries' = queries + 1
  /\ UNCHANGED <<family, overlap_correction, epochs, intrinsic_artifacts,
                 overlap_graph, epochs_needing_artifact, run, first_result,
                 subspans, strategy_vars, reduce_vars, rerp_requests, dataset,
                 analysis_subspans, account_vars>>

(* Lines 145-149, one turn of the loop over rerp_requests.                 *)
RequestSpansCall ==
  /\ pc = "artifacts"
  /\ Len(rerps) < Len(rerp_requests)
  /\ LET i == Len(rerps)
         r == EpochInfoAndSpans(dataset, rerp_requests[i + 1], Len(epochs) + 1)
     IN /\ raised' = r.raised
        /\ pc' = IF r.raised = "none" THEN "artifacts" ELSE "failed"
        /\ rerps' = IF r.raised = "none"
                    THEN rerps \o <<SetContext(r.rerp, i, Len(rerp_requests))>>
                    ELSE rerps
        /\ epochs' = epochs \o r.epochs
        /\ spans' = spans \o r.spans
        /\ intrinsic_artifacts' = intrinsic_artifacts \o BornOf(r.epochs)
  /\ queries' = queries + 1
  /\ UNCHANGED <<family, overlap_correction, overlap_graph,
                 epochs_needing_artifact, run, first_result, subspans,
                 requested_strategy, regression_strategy, message, design_widths,
                 reduce_vars, rerp_requests, dataset, analysis_subspans,
                 account_vars>>

AnyAllOrNothing == \E i \in 1..Len(rerp_requests) : rerp_requests[i].all_or_nothing

(* Lines 167-168: _propagate_all_or_nothing(spans, overlap_correction)     *)
PropagateCall ==
  /\ pc = "artifacts"
  /\ Len(rerps) = Len(rerp_requests)
  /\ AnyAllOrNothing
  /\ intrinsic_artifacts' =
       PropagateAllOrNothing(spans, overlap_correction, epochs, intrinsic_artifacts)
  /\ pc' = "spans propagated"
  /\ UNCHANGED <<family, overlap_correction, epochs, spans, overlap_graph,
                 epochs_needing_artifact, run, first_result, subspans, raised,
                 later_vars>>

(* Lines 170-172: the accountant is made and the generator of              *)
(* _epoch_subspans is started; subspans is what it will yield.             *)
AccountantCall ==
  /\ \/ pc = "spans propagated"
     \/ pc = "artifacts" /\ Len(rerps) = Len(rerp_requests) /\ ~AnyAllOrNothing
  /\ subspans' = EpochSubspans(spans, overlap_correction, epochs,
                               intrinsic_artifacts).subspans
  /\ accountant' = Accountant(rerps)
  /\ consumed' = 0
  /\ pc' = "accounting"
  /\ UNCHANGED <<family, overlap_correction, epochs, spans, intrinsic_artifacts,
                 overlap_graph, epochs_needing_artifact, run, first_result,
                 raised, strategy_vars, reduce_vars, request_vars>>

(* Lines 172-175, one turn of the loop: the subspan is counted, and kept   *)
(* for the analysis when it has no artifact.                               *)
AccountSubspan ==
  /\ pc = "accounting"
  /\ consumed < Len(subspans)
  /\ LET subspan == subspans[consumed + 1]
         r == Count(accountant, subspan)
     IN /\ accountant' = r.accountant
        /\ raised' = r.raised
        /\ pc' = IF r.raised = "none" THEN "accounting" ELSE "failed"
        /\ analysis_subspans' =
             IF r.raised = "none" /\ subspan.artifacts = {}
             THEN Append(analysis_subspans, subspan)
             ELSE analysis_subspans
  /\ consumed' = consumed + 1
  /\ UNCHANGED <<sweep_vars, strategy_vars, reduce_vars, rerp_requests, dataset,
                 queries>>

(* Line 176, after the generator is exhausted: an exception it ended with  *)
(* comes out of the loop, otherwise accountant.close() runs.               *)
AccountClose ==
  /\ pc = "accounting"
  /\ consumed = Len(subspans)
  /\ LET generator == EpochSubspans(spans, overlap_correction, epochs,
                                    intrinsic_artifacts)
         r == Close(accountant, rerps)
     IN IF generator.raised # "none"
        THEN /\ raised' = generator.raised
             /\ pc' = "failed"
             /\ UNCHANGED rerps
        ELSE /\ rerps' = r.rerps
             /\ raised' = r.raised
             /\ pc' = IF r.raised = "none" THEN "accounted" ELSE "failed"
  /\ UNCHANGED <<sweep_vars, requested_strategy, regression_strategy, message,
                 design_widths, reduce_vars, request_vars, account_vars>>

NextBatch ==
  \/ CheckUniqueNamesCall
  \/ ArtifactSpansCall
  \/ RequestSpansCall
  \/ PropagateCall
  \/ AccountantCall
  \/ AccountSubspan
  \/ AccountClose

SpecBatch == InitBatch /\ [][NextBatch]_vars

(* The ticks of the recording a subspan lies in.                           *)
RecordingLength(subspan) == dataset.recspan_infos[subspan.start[1] + 1]

(* The subspans line 174 accepts: those with an empty artifact set.        *)
AcceptedSubspans == {s \in Range(subspans) : s.artifacts = {}}

(* C16: every subspan accepted for analysis lies within the ticks          *)
(* [0, recording length) of one recording; a subspan that reaches before   *)
(* tick 0 or past the end of its recording carries _NO_RECORDING; and only *)
(* accepted subspans are kept for the fitting jobs.                        *)
C16_AcceptedSubspansWithinRecording ==
  /\ \A s \in AcceptedSubspans :
       /\ s.start[1] = s.stop[1]
       /\ 0 <= s.start[2]
       /\ s.start[2] < s.stop[2]
       /\ s.stop[2] <= RecordingLength(s)
  /\ \A s \in Range(subspans) :
       (s.start[2] < 0 \/ s.stop[2] > RecordingLength(s))
         => "_NO_RECORDING" \in s.artifacts
  /\ Range(analysis_subspans) \subseteq AcceptedSubspans

(* An epoch window of ticks [-1, 2) around tick 0 of a one-tick recording  *)
(* is cut into [-1, 0) and [1, 2), which carry _NO_RECORDING, and [0, 1),  *)
(* which is accepted.                                                      *)
C16_Witness ==
  /\ pc = "accounting"
  /\ \E s \in Range(subspans) :
       s.start = <<0, -1>> /\ s.stop = <<0, 0>> /\ s.artifacts = {"_NO_RECORDING"}
  /\ \E s \in Range(subspans) :
       s.start = <<0, 1>> /\ s.stop = <<0, 2>> /\ s.artifacts = {"_NO_RECORDING"}
  /\ \E s \in AcceptedSubspans : s.start = <<0, 0>> /\ s.stop = <<0, 1>>

HasDuplicateNames ==
  \E i \in 1..Len(rerp_requests) : \E j \in 1..Len(rerp_requests) :
    i # j /\ rerp_requests[i].name = rerp_requests[j].name

(* C18: the batch fails with the ValueError of _check_unique_names exactly *)
(* when two of its requests have the same name, and the check comes first: *)
(* no span has been extracted and the dataset has not been queried until   *)
(* the names have passed it.                                               *)
C18_UniqueNamesCheckedFirst ==
  /\ pc = "batch" => spans = <<>> /\ queries = 0 /\ rerps = <<>>
  /\ pc # "batch" =>
       /\ HasDuplicateNames <=> (pc = "failed" /\ raised = "ValueError" /\ queries = 0)
       /\ HasDuplicateNames =>
            spans = <<>> /\ epochs = <<>> /\ rerps = <<>> /\ subspans = <<>>
       /\ (queries > 0 \/ spans # <<>>) => ~HasDuplicateNames

(* Two requests named alike: the batch has failed before any query.        *)
C18_Witness ==
  /\ pc = "failed"
  /\ raised = "ValueError"
  /\ Len(rerp_requests) = 2
  /\ rerp_requests[1].name = rerp_requests[2].name
  /\ rerp_requests[1] # rerp_requests[2]
  /\ queries = 0
  /\ spans = <<>>

-----------------------------------------------------------------------------
(* The sweep again: where it cuts, and how it keeps its live counts.       *)

(* Subspan i ends where subspan j starts, with the same epochs and the     *)
(* same artifacts on both.                                                 *)
AdjacentAlike(i, j) ==
  /\ subspans[i].stop = subspans[j].start
  /\ subspans[i].epochs = subspans[j].epochs
  /\ subspans[i].artifacts = subspans[j].artifacts

IntervalsOfLabelAt(label, p) ==
  Cardinality({i \in 1..Len(spans) :
                 spans[i].artifact = label /\ Inside(p, spans[i].start, spans[i].stop)})

(* The frame after a state change at position p holds the live counts of   *)
(* p: the live epochs once each, every live label as often as intervals    *)
(* carry it.                                                               *)
CountsExact(frame, p) ==
  /\ DOMAIN frame.current_epochs = LiveEpochsAt(p)
  /\ \A e \in LiveEpochsAt(p) : frame.current_epochs[e] = 1
  /\ DOMAIN frame.current_artifacts = LiveArtifactsAt(p)
  /\ \A a \in LiveArtifactsAt(p) :
       frame.current_artifacts[a] = IntervalsOfLabelAt(a, p)

(* The generator's frames from the k-th state change of the sorted list    *)
(* scs on, frame being the one before it: no step raises, the counts are   *)
(* exact after the last change at each position, and both maps are empty   *)
(* after the last change of all.                                           *)
RECURSIVE FramesExact(_, _, _)
FramesExact(frame, scs, k) ==
  IF k > Len(scs)
  THEN frame.current_epochs = EmptyDict /\ frame.current_artifacts = EmptyDict
  ELSE LET after == SweepStep(frame, scs[k], overlap_correction, epochs,
                              intrinsic_artifacts)
       IN /\ after.raised = "none"
          /\ (k = Len(scs) \/ scs[k + 1].position # scs[k].position)
               => CountsExact(after, scs[k].position)
          /\ FramesExact(after, scs, k + 1)

(* C23: for a list of intervals with start < stop the sweep raises         *)
(* nothing: no count is decremented for an absent key and both live-count  *)
(* maps are empty at the end.  Once every state change at a position has   *)
(* been applied, the live count of a label is the number of intervals      *)
(* carrying it that hold the position, and the live epochs are those       *)
(* whose interval holds it; so every subspan has positive length and       *)
(* carries the labels of all intervals that hold its start, a label        *)
(* staying live until its last interval closes.                            *)
C23_LiveCountsExact ==
  (pc = "swept" \/ pc = "failed") =>
    /\ pc = "swept"
    /\ raised = "none"
    /\ FramesExact([last_position |-> <<>>, current_epochs |-> EmptyDict,
                    current_artifacts |-> EmptyDict, subspans |-> <<>>,
                    raised |-> "none"],
                   Sort(StateChanges(spans)), 1)
    /\ \A i \in 1..Len(subspans) :
         /\ PosLess(subspans[i].start, subspans[i].stop)
         /\ subspans[i].epochs \subseteq LiveEpochsAt(subspans[i].start)
         /\ subspans[i].artifacts =
              LiveArtifactsAt(subspans[i].start)
                \cup IntrinsicOf(subspans[i].epochs, intrinsic_artifacts)

(* Two intervals with one label start together inside an epoch and one     *)
(* closes first: the label is still on the subspan that starts there.      *)
C23_Witness ==
  /\ pc = "swept"
  /\ \E a, b \in 1..Len(spans) :
       /\ a # b
       /\ spans[a].artifact = "a1"
       /\ spans[b].artifact = "a1"
       /\ PosLess(spans[a].stop, spans[b].stop)
       /\ PosLess(spans[b].start, spans[a].stop)
       /\ \E i \in 1..Len(subspans) :
            /\ subspans[i].start = spans[a].stop
            /\ "a1" \in subspans[i].artifacts
            /\ \A e \in subspans[i].epochs : intrinsic_artifacts[e] = <<>>

-----------------------------------------------------------------------------
(* The accounting of a batch.  Lines 856-922 read four names that are      *)
(* bound nowhere: bucket_epochs (871, 872), buckets (892),                 *)
(* epochs_with_artifacts (910) and epochs_with_data (912).  The            *)
(* definitions below are those lines with the names read as bucket_events, *)
(* bucket_events, self._epochs_with_artifacts and self._epochs_with_data.  *)
(* No specification takes a step with them; they say what the counters    *)
(* would be, and the claims about the counters are stated against the      *)
(* Accountant as it is written, Count and Close.                           *)

(* The epochs of the batch are numbered request by request (lines          *)
(* 145-149): the epochs of the requests before request i.                  *)
RECURSIVE EpochsBefore(_)
EpochsBefore(i) ==
  IF i <= 1 THEN 0
  ELSE EpochsBefore(i - 1)
         + Len(EventsQuery(dataset, rerp_requests[i - 1].event_query))

(* epoch.rerp.this_rerp_idx + 1: the request an epoch was built for.       *)
RequestOf(e) ==
  CHOOSE i \in 1..Len(rerp_requests) : EpochsBefore(i) < e /\ e <= EpochsBefore(i + 1)

(* Lines 889-898 for one bucket: the dict bucket.artifacts after a subspan *)
(* of ticks ticks carrying artifacts.                                      *)
ChargeArtifacts(dict, artifacts, ticks) ==
  LET charged == IF Cardinality(artifacts) >= 2 /\ "_ALL_OR_NOTHING" \in artifacts
                 THEN artifacts \ {"_ALL_OR_NOTHING"} ELSE artifacts
      is_unique == Cardinality(charged) = 1
      old(a) == IF a \in DOMAIN dict THEN dict[a]
                ELSE [affected_ticks |-> 0, unique_ticks |-> 0]
  IN [a \in DOMAIN dict \cup charged |->
        IF a \in charged
        THEN [affected_ticks |-> old(a).affected_ticks + ticks,
              unique_ticks |-> old(a).unique_ticks + (IF is_unique THEN ticks ELSE 0)]
        ELSE dict[a]]

(* Lines 874-904 for one bucket that events of the subspan's epochs belong *)
(* to.                                                                     *)
CountInBucket(bucket, subspan, events) ==
  LET ticks == subspan.stop[2] - subspan.start[2]
      no_overlap_ticks == IF Cardinality(subspan.epochs) = 1 THEN ticks ELSE 0
      clean == subspan.artifacts = {}
  IN [bucket EXCEPT
        !.ticks_requested = @ + ticks,
        !.event_ticks_requested = @ + ticks * events,
        !.no_overlap_ticks_requested = @ + no_overlap_ticks,
        !.ticks_accepted = @ + (IF clean THEN ticks ELSE 0),
        !.event_ticks_accepted = @ + (IF clean THEN ticks * events ELSE 0),
        !.no_overlap_ticks_accepted = @ + (IF clean THEN no_overlap_ticks ELSE 0),
        !.artifacts = IF clean THEN @ ELSE ChargeArtifacts(@, subspan.artifacts, ticks)]

(* count with the names bound.                                             *)
CountWithNamesBound(acct, subspan) ==
  IF subspan.epochs = {}
  THEN [accountant |-> acct, raised |-> "none"]
  ELSE LET of(i) == Cardinality({e \in subspan.epochs : RequestOf(e) = i})
       IN [accountant |->
             [global_bucket |->
                CountInBucket(acct.global_bucket, subspan,
                              Cardinality(subspan.epochs)),
              rerp_buckets |->
                [i \in 1..Len(acct.rerp_buckets) |->
                   IF of(i) > 0
                   THEN CountInBucket(acct.rerp_buckets[i], subspan, of(i))
                   ELSE acct.rerp_buckets[i]],
              epochs_with_artifacts |->
                acct.epochs_with_artifacts
                  \cup (IF subspan.artifacts # {} THEN subspan.epochs ELSE {}),
              epochs_with_data |->
                acct.epochs_with_data
                  \cup (IF subspan.artifacts = {} THEN subspan.epochs ELSE {})],
           raised |-> "none"]

(* _set_epoch_stats with the names bound, for the epochs of one bucket.    *)
SetEpochStats(bucket, acct, its_epochs) ==
  [bucket EXCEPT
     !.epochs_requested = @ + Cardinality(its_epochs),
     !.epochs_fully_accepted =
        @ + Cardinality(its_epochs \ acct.epochs_with_artifacts),
     !.epochs_fully_rejected =
        @ + Cardinality((its_epochs \cap acct.epochs_with_artifacts)
                          \ acct.epochs_with_data),
     !.epochs_partially_accepted =
        @ + Cardinality(its_epochs \cap acct.epochs_with_artifacts
                          \cap acct.epochs_with_data)]

(* close with the names bound: the accountant with its buckets filled in,  *)
(* and the rERP objects with their accounting set.                         *)
CloseWithNamesBound(acct, rs) ==
  LET all_epochs == acct.epochs_with_data \cup acct.epochs_with_artifacts
      global == SetEpochStats(acct.global_bucket, acct, all_epochs)
  IN [accountant |->
        [acct EXCEPT
           !.global_bucket = global,
           !.rerp_buckets =
              [i \in 1..Len(acct.rerp_buckets) |->
                 SetEpochStats(acct.rerp_buckets[i], acct,
                               {e \in all_epochs : RequestOf(e) = i})]],
      rerps |-> [i \in 1..Len(rs) |-> SetAccounting(rs[i], global)],
      raised |-> "none"]

(* The accounting loop of the batch has come to its end, one way or the    *)
(* other.                                                                  *)
AccountingEnded == accountant # <<>> /\ (pc = "accounted" \/ pc = "failed")

(* The epochs the stream of subspans names, those it names in a subspan    *)
(* with artifacts, and those it names in a subspan without.                *)
CountedEpochs == UNION {s.epochs : s \in Range(subspans)}

TouchedArtifact == {e \in CountedEpochs :
                      \E s \in Range(subspans) : e \in s.epochs /\ s.artifacts # {}}

TouchedData == {e \in CountedEpochs :
                  \E s \in Range(subspans) : e \in s.epochs /\ s.artifacts = {}}

(* The four epoch counters of a bucket classify its epochs.                *)
Classifies(bucket, its_epochs) ==
  /\ bucket.epochs_requested = Cardinality(its_epochs)
  /\ bucket.epochs_fully_accepted = Cardinality(its_epochs \ TouchedArtifact)
  /\ bucket.epochs_fully_rejected = Cardinality(its_epochs \ TouchedData)
  /\ bucket.epochs_partially_accepted =
       Cardinality(its_epochs \cap TouchedArtifact \cap TouchedData)
  /\ bucket.epochs_requested =
       bucket.epochs_fully_accepted + bucket.epochs_partially_accepted
         + bucket.epochs_fully_rejected

(* C21 as stated: at close every epoch the Accountant was given falls in   *)
(* exactly one class, in the global bucket and in the bucket of its        *)
(* request: fully accepted if no subspan naming it had artifacts, fully    *)
(* rejected if every one had, partially accepted otherwise.                *)
C21_AsStated ==
  AccountingEnded =>
    /\ Classifies(accountant.global_bucket, CountedEpochs)
    /\ \A i \in 1..Len(rerps) :
         Classifies(accountant.rerp_buckets[i],
                    {e \in CountedEpochs : RequestOf(e) = i})

(* The artifact types a subspan is charged to: _ALL_OR_NOTHING gives way   *)
(* to any other type on the subspan.                                       *)
Charged(subspan) ==
  IF Cardinality(subspan.artifacts) >= 2 /\ "_ALL_OR_NOTHING" \in subspan.artifacts
  THEN subspan.artifacts \ {"_ALL_OR_NOTHING"} ELSE subspan.artifacts

(* The ticks of the first n subspans charged to type a, and those charged  *)
(* to a alone.                                                             *)
RECURSIVE AffectedTicks(_, _)
AffectedTicks(a, n) ==
  IF n = 0 THEN 0
  ELSE AffectedTicks(a, n - 1)
         + (IF a \in Charged(subspans[n]) THEN Length(subspans[n]) ELSE 0)

RECURSIVE UniqueTicks(_, _)
UniqueTicks(a, n) ==
  IF n = 0 THEN 0
  ELSE UniqueTicks(a, n - 1)
         + (IF Charged(subspans[n]) = {a} THEN Length(subspans[n]) ELSE 0)

(* C27 as stated: once the subspans are counted, the global bucket has an  *)
(* entry for every artifact type a subspan is charged to; its              *)
(* affected_ticks are the ticks of the subspans charged to the type, its   *)
(* unique_ticks those of the subspans charged to it alone, so unique_ticks *)
(* <= affected_ticks, and _ALL_OR_NOTHING is charged only where it is the  *)
(* only artifact.                                                          *)
C27_AsStated ==
  AccountingEnded =>
    LET n == Len(subspans)
        dict == accountant.global_bucket.artifacts
    IN /\ DOMAIN dict = UNION {Charged(subspans[i]) : i \in 1..n}
       /\ \A a \in DOMAIN dict :
            /\ dict[a].affected_ticks = AffectedTicks(a, n)
            /\ dict[a].unique_ticks = UniqueTicks(a, n)
            /\ dict[a].unique_ticks <= dict[a].affected_ticks
       /\ "_ALL_OR_NOTHING" \in DOMAIN dict =>
            dict["_ALL_OR_NOTHING"].affected_ticks
              = dict["_ALL_OR_NOTHING"].unique_ticks

(* The epochs of request i that the stream of subspans names.              *)
CountedEpochsOf(i) == {e \in CountedEpochs : RequestOf(e) = i}

(* C30 as stated: once the subspans are counted, the bucket of an          *)
(* all-or-nothing request has no partially accepted epoch: every epoch of  *)
(* the request is counted as fully accepted or as fully rejected.          *)
C30_AsStated ==
  AccountingEnded =>
    \A i \in 1..Len(rerp_requests) :
         rerp_requests[i].all_or_nothing =>
           /\ accountant.rerp_buckets[i].epochs_partially_accepted = 0
           /\ accountant.rerp_buckets[i].epochs_fully_accepted
                + accountant.rerp_buckets[i].epochs_fully_rejected
                = Cardinality(CountedEpochsOf(i))

(* The epochs that were built with an intrinsic artifact.                  *)
BornBad == {e \in 1..Len(epochs) : epochs[e].born # <<>>}

AcceptedOverlap == \E s \in AcceptedSubspans : Cardinality(s.epochs) >= 2

(* C25 as stated: once the subspans are counted, the test of               *)
(* _choose_strategy on the global bucket finds overlap exactly when the    *)
(* bucket's accepted event-ticks exceed its accepted overlap-free ticks,   *)
(* and exactly when some accepted subspan has two or more live epochs.     *)
C25_AsStated ==
  AccountingEnded =>
    LET bucket == accountant.global_bucket
    IN /\ HaveOverlap(bucket)
            <=> bucket.event_ticks_accepted > bucket.no_overlap_ticks_accepted
       /\ HaveOverlap(bucket) <=> AcceptedOverlap

(* C26 as stated: with overlap_correction=false every subspan that is      *)
(* counted names exactly one epoch, the three accepted tick counters of    *)
(* the global bucket are equal, the test of _choose_strategy finds no      *)
(* overlap, and by-epoch fitting is infeasible on that bucket exactly when *)
(* some epoch is partially accepted, named both by a subspan with          *)
(* artifacts and by one without.                                           *)
C26_AsStated ==
  (AccountingEnded /\ ~overlap_correction) =>
    LET bucket == accountant.global_bucket
    IN /\ \A s \in Range(subspans) : Cardinality(s.epochs) = 1
       /\ bucket.event_ticks_accepted = bucket.ticks_accepted
       /\ bucket.ticks_accepted = bucket.no_overlap_ticks_accepted
       /\ ~HaveOverlap(bucket)
       /\ ~ByEpochPossible(bucket) <=> (TouchedArtifact \cap TouchedData # {})

-----------------------------------------------------------------------------
(* The jobs: _by_epoch_jobs, _continuous_jobs and _ContinuousWorker, taken *)
(* on their own with the arguments lines 140-182 build for them (in a run  *)
(* of multi_rerp_impl the accounting loop has to return first).            *)

(* Lines 145-149, the loop over rerp_requests[i..]: acc holds the epochs,  *)
(* the spans and the rERP objects so far.                                  *)
RECURSIVE ExtractLoop(_, _, _, _)
ExtractLoop(ds, reqs, i, acc) ==
  IF i > Len(reqs) \/ acc.raised # "none" THEN acc
  ELSE LET r == EpochInfoAndSpans(ds, reqs[i], Len(acc.epochs) + 1)
       IN IF r.raised # "none" THEN [acc EXCEPT !.raised = r.raised]
          ELSE ExtractLoop(ds, reqs, i + 1,
                 [epochs |-> acc.epochs \o r.epochs,
                  spans |-> acc.spans \o r.spans,
                  rerps |-> acc.rerps \o <<SetContext(r.rerp, i - 1, Len(reqs))>>,
                  raised |-> "none"])

(* Lines 136-175 without the accountant: the epochs, their intrinsic       *)
(* artifacts after the propagation, the spans, the rERP objects, the       *)
(* subspans of the sweep, and what was raised on the way.                  *)
Extract(ds, reqs, oc) ==
  LET names == CheckUniqueNames(reqs)
      a == ArtifactSpansOf(ds, "artifact")
      x == ExtractLoop(ds, reqs, 1,
                       [epochs |-> <<>>, spans |-> a.spans, rerps |-> <<>>,
                        raised |-> IF names # "none" THEN names ELSE a.raised])
      intr == IF \E i \in 1..Len(reqs) : reqs[i].all_or_nothing
              THEN PropagateAllOrNothing(x.spans, oc, x.epochs, BornOf(x.epochs))
              ELSE BornOf(x.epochs)
  IN [epochs |-> x.epochs, spans |-> x.spans, rerps |-> x.rerps,
      intrinsic_artifacts |-> intr,
      subspans |-> EpochSubspans(x.spans, oc, x.epochs, intr).subspans,
      raised |-> x.raised]

(* _by_epoch_jobs(dataset, analysis_subspans), run to its end: the jobs    *)
(* yielded and the exception that ends the generator.  The assertion of    *)
(* line 975 takes len() of the comparison subspan.epochs == 1, a bool:     *)
(* TypeError for the first subspan.  With assertions stripped the first    *)
(* job reads epoch.stop_tick (line 980), which no _Epoch has:              *)
(* AttributeError.  Without subspans there is no epoch and no job.         *)
ByEpochJobs(subs) ==
  IF subs = <<>>
  THEN {[jobs |-> <<>>, raised |-> "none"]}
  ELSE {[jobs |-> <<>>, raised |-> "TypeError"],
        [jobs |-> <<>>, raised |-> "AttributeError"]}

(* _continuous_jobs(dataset, analysis_subspans): one job per subspan, the  *)
(* data being the ticks [start, stop) of the subspan's recording.          *)
RECURSIVE ContinuousJobs(_)
ContinuousJobs(subs) ==
  IF subs = <<>> THEN <<>>
  ELSE <<[recspan_id |-> Head(subs).start[1],
          data |-> <<Head(subs).start[2], Head(subs).stop[2]>>,
          data_start_tick |-> Head(subs).start[2],
          epochs |-> Head(subs).epochs]>>
       \o ContinuousJobs(Tail(subs))

(* _ContinuousWorker.__call__(job): the first turn of the loop of lines    *)
(* 1028-1037 reads epoch.expanded_design_offset (line 1034), which no      *)
(* _Epoch has (the offset is rerp.continuous_design_offset):               *)
(* AttributeError before a column is written.  A job without epochs        *)
(* writes no column.                                                       *)
ContinuousWorker(job) ==
  IF job.epochs = {}
  THEN [columns |-> {}, raised |-> "none"]
  ELSE [columns |-> {}, raised |-> "AttributeError"]

(* No accepted subspan has two epochs and no epoch is named both with and  *)
(* without artifacts: what _choose_strategy requires of by-epoch.          *)
ByEpochFeasible(subs) ==
  /\ \A i \in 1..Len(subs) :
       subs[i].artifacts = {} => Cardinality(subs[i].epochs) = 1
  /\ \A i, j \in 1..Len(subs) :
       (subs[i].artifacts = {} /\ subs[j].artifacts # {})
         => subs[i].epochs \cap subs[j].epochs = {}

InitJobs ==
  /\ pc = "jobs"
  /\ raised = "none"
  /\ family = "none"
  /\ overlap_correction \in BOOLEAN
  /\ overlap_graph = <<>>
  /\ epochs_needing_artifact = {}
  /\ run = 0
  /\ first_result = <<>>
  /\ requested_strategy = "none"
  /\ message = <<>>
  /\ \E ticks \in 1..MaxTick :
       \E second_event \in {"none", "good", "missing predictor"} :
         \E artifact \in {"none", "a1"} :
           dataset = BatchDataset(ticks, second_event, artifact)
  /\ \E n \in 1..MaxRequests : rerp_requests \in [1..n -> BatchRequests]
  /\ CheckUniqueNames(rerp_requests) = "none"
  /\ \E x \in {Extract(dataset, rerp_requests, overlap_correction)} :
       /\ x.raised = "none"
       /\ epochs = x.epochs
       /\ spans = x.spans
       /\ intrinsic_artifacts = x.intrinsic_artifacts
       /\ subspans = x.subspans
       /\ analysis_subspans = SelectSeq(x.subspans, LAMBDA s : s.artifacts = {})
       /\ \E layout \in {LayoutDesignMatrices(x.rerps)} :
            /\ rerps = layout.rerps
            /\ design_widths = layout.widths
  /\ regression_strategy \in {"by-epoch", "continuous"}
  /\ regression_strategy = "by-epoch" => ByEpochFeasible(subspans)
  /\ queries = 0
  /\ jobs = <<>>
  /\ jobs_iter = {}
  /\ model = <<>>
  /\ betas = "none"
  /\ AccountIdle

(* jobs_iter = _by_epoch_jobs(dataset, analysis_subspans), consumed.       *)
ByEpochJobsCall ==
  /\ pc = "jobs"
  /\ regression_strategy = "by-epoch"
  /\ \E r \in ByEpochJobs(analysis_subspans) :
       /\ jobs' = r.jobs
       /\ raised' = r.raised
       /\ pc' = IF r.raised = "none" THEN "jobs made" ELSE "failed"
  /\ jobs_iter' = {}
  /\ UNCHANGED <<sweep_vars, strategy_vars, model, betas, request_vars,
                 account_vars>>

(* jobs_iter = _continuous_jobs(dataset, analysis_subspans), consumed.     *)
ContinuousJobsCall ==
  /\ pc = "jobs"
  /\ regression_strategy = "continuous"
  /\ jobs' = ContinuousJobs(analysis_subspans)
  /\ jobs_iter' = 1..Len(jobs')
  /\ pc' = "jobs made"
  /\ UNCHANGED <<sweep_vars, strategy_vars, model, betas, request_vars,
                 account_vars, raised>>

(* worker(job) for one of the jobs, in any order.                          *)
ContinuousWorkerCall ==
  /\ pc = "jobs made"
  /\ regression_strategy = "continuous"
  /\ \E k \in jobs_iter :
       LET r == ContinuousWorker(jobs[k])
       IN /\ raised' = r.raised
          /\ pc' = IF r.raised = "none" THEN "jobs made" ELSE "failed"
          /\ model' = IF r.raised = "none"
                       THEN Append(model, [job |-> k, columns |-> r.columns])
                       ELSE model
          /\ jobs_iter' = jobs_iter \ {k}
  /\ UNCHANGED <<sweep_vars, strategy_vars, jobs, betas, request_vars,
                 account_vars>>

NextJobs ==
  \/ ByEpochJobsCall
  \/ ContinuousJobsCall
  \/ ContinuousWorkerCall

SpecJobs == InitJobs /\ [][NextJobs]_vars

(* The jobs have been asked for.                                           *)
JobsAsked == pc = "jobs made" \/ pc = "failed"

(* The epochs no subspan of which carries an artifact.                     *)
FullyAccepted == CountedEpochs \ TouchedArtifact

(* C28: in by-epoch mode the generator ends without an exception, every    *)
(* accepted subspan names exactly one epoch, every fully accepted epoch    *)
(* has exactly one job however many subspans its window was split into,    *)
(* and no job is for an epoch that touches an artifact.                    *)
C28_AsStated ==
  (regression_strategy = "by-epoch" /\ JobsAsked)
    => /\ raised = "none"
       /\ \A s \in AcceptedSubspans : Cardinality(s.epochs) = 1
       /\ \A e \in FullyAccepted :
            Cardinality({k \in 1..Len(jobs) : jobs[k].epoch = e}) = 1
       /\ \A k \in 1..Len(jobs) : jobs[k].epoch \in FullyAccepted

(* The columns of predictor i of epoch e for a job: expanded offset of the *)
(* epoch's request + i x window ticks + data_start_tick - epoch.start_tick,*)
(* one per tick of the data.                                               *)
ColumnsOf(job, e, i) ==
  LET col_start == rerps[RequestOf(e)].continuous_design_offset
                     + i * epochs[e].ticks
                     + job.data_start_tick - epochs[e].start_tick
  IN {col_start + t : t \in 0..(job.data[2] - job.data[1] - 1)}

(* The block of predictor i in the expanded design of the epoch's request. *)
BlockOf(e, i) ==
  LET offset == rerps[RequestOf(e)].continuous_design_offset
  IN {c \in 0..(design_widths[2] - 1) :
        /\ offset + i * epochs[e].ticks <= c
        /\ c < offset + (i + 1) * epochs[e].ticks}

(* The jobs a worker has been called with.                                 *)
Worked == (1..Len(jobs)) \ jobs_iter

(* C29: in continuous mode every call of the worker returns, the data of   *)
(* its job lie inside the window of every epoch of the job, and the        *)
(* columns written for each predictor of each epoch are the ones above,    *)
(* inside the predictor's block and the expanded design width.             *)
C29_AsStated ==
  (regression_strategy = "continuous" /\ JobsAsked)
    => \A k \in Worked :
         /\ raised = "none"
         /\ \A e \in jobs[k].epochs :
              /\ epochs[e].start_tick <= jobs[k].data[1]
              /\ jobs[k].data[2] <= epochs[e].start_tick + epochs[e].ticks
              /\ \A i \in 0..(rerps[RequestOf(e)].column_names - 1) :
                   /\ \E m \in Range(model) :
                        /\ m.job = k
                        /\ {c[3] : c \in {x \in m.columns : x[1] = e /\ x[2] = i}}
                             = ColumnsOf(jobs[k], e, i)
                   /\ ColumnsOf(jobs[k], e, i) \subseteq BlockOf(e, i)

====
